---- MODULE Spec2Model ----
(***************************************************************************)
(* A model of the resumable workflow engine of content-creation-agent:     *)
(* BaseWorkflow.run / resume on top of a LangGraph StateGraph compiled     *)
(* with an InMemorySaver checkpointer (src/src/base_workflow.py), the      *)
(* workflows that are run on it (messaging, collaboration, scraping), the  *)
(* Instagram scraper's cooperative cancellation, and the leads server that *)
(* dispatches /generate requests to run or resume.                         *)
(*                                                                         *)
(* A call of run/resume is a process: it begins (loads the checkpoint),    *)
(* executes one graph step per action (an async step begins and ends in    *)
(* two actions, the await in between being a point where other requests of *)
(* the event loop run), and returns a RunResult.                           *)
(***************************************************************************)
EXTENDS Integers, Sequences, FiniteSets, TLC

VARIABLES
    memory,      \* memory[w][t]: the checkpoint of thread t in workflow w's InMemorySaver
    calls,       \* calls[c]: the run/resume call (or /generate request) in slot c
    inst,        \* inst[w]: attributes of the workflow instance shared by all threads
    stop_event,  \* stop_event[w]: the asyncio.Event of workflow w ("none", "clear", "set")
    scr,         \* the InstagramPostsScraper of the scrape step in progress
    db,          \* the database tables the scraper writes
    sessions,    \* LeadsSessionManager.sessions: session id -> session record
    conversations, \* LeadsSessionManager.conversations: the ids that have a history
    stop_owner,  \* stop_owner[w]: the sessions the stop event of w was created and set for
    hist         \* history: what the properties need to remember

vars == <<memory, calls, inst, stop_event, scr, db, sessions, conversations,
          stop_owner, hist>>

----------------------------------------------------------------------------
(* Bounds of the model *)

NumThreads == 2          \* thread ids 1..NumThreads
MaxProfilesCfg == 1      \* config.yaml instagram_message_workflow.default_max_profiles
MaxLoaded == 1           \* rows of the uploaded CSV
MaxRequests == 2         \* /generate requests in flight on the leads server
MaxPages == 2            \* pages Instagram serves per user
MaxCalls == 4            \* run/resume calls made in a behaviour
MaxGenerate == 2         \* /generate requests made in a behaviour of the leads server

Threads == 1..NumThreads
None == "None"
END == "END"

\* Raw answers a human may type, and the initial inputs of run()
RawInputs == {"yes", "no", "maybe", "cancel", "Cancel", "quit"}

\* str.lower() on the inputs of the model
Lower(s) ==
    IF s = "Cancel" THEN "cancel" ELSE s

----------------------------------------------------------------------------
(* Workflow state (the LangGraph channels). A key that is absent or None   *)
(* is "None" (strings), FALSE (flags), 0 (counters read with .get(k,0),    *)
(* profile urls) or -1 (usernames: the number of names, -1 when absent).   *)

NoResult == [set |-> FALSE, success |-> FALSE, processed |-> 0, successful |-> 0]

BlankState ==
    [ user_input |-> None, current_step |-> None, workflow_status |-> None,
      error_message |-> None,
      \* InstagramMessageState
      csv_path |-> None, max_profiles |-> 0, screenshot_path |-> None,
      current_profile_url |-> 0, message_text |-> None, message_confirmed |-> None,
      message_sent |-> FALSE, processed |-> 0, successful |-> 0,
      automation_result |-> NoResult,
      \* InstagramCollaborationState
      niche |-> None, collaboration_result |-> None,
      \* InstagramScrapingState
      usernames |-> -1, force_reset |-> FALSE, scraping_result |-> None,
      embedding_result |-> None,
      \* TrendFindingState: trend_data is the list of the categories of the
      \* trending items ("" for an item that has none)
      location |-> None, trend_data |-> <<>>, categories |-> <<>>,
      selected_categories |-> <<>>, is_satisfied |-> FALSE,
      trends_summary |-> None ]

\* run(): initial_state = {"user_input": user_input}
InitialState(user_input) == [BlankState EXCEPT !.user_input = user_input]

\* BaseWorkflow.update_step
update_step(state, step_name) == [state EXCEPT !.current_step = step_name]

----------------------------------------------------------------------------
(* Interrupts: InterruptConfig, the data of an interrupt, validators       *)

NoData ==
    [ type |-> None, instructions |-> None, options |-> <<>>,
      screenshot |-> None, profile_url |-> 0, message_text |-> None,
      available_categories |-> <<>>, trends_summary |-> None,
      selected_categories |-> <<>>,
      error |-> FALSE, error_message |-> None, previous_input |-> None ]

NoIntr == [message |-> None, data |-> NoData]

\* A validator's result dict; an absent key is "None" / FALSE
NoVR ==
    [ valid |-> FALSE, confirmed |-> FALSE, action |-> None,
      edited_message |-> None, error_message |-> None,
      satisfied |-> FALSE, selected_categories |-> <<>> ]

\* validate_login_confirmation (module level) and its method twin
validate_login_confirmation(user_input, context) ==
    IF Lower(user_input) \in {"yes", "y", "yes, i've logged in"}
    THEN [NoVR EXCEPT !.valid = TRUE, !.confirmed = TRUE]
    ELSE IF Lower(user_input) \in {"no", "n", "cancel"}
    THEN [NoVR EXCEPT !.valid = TRUE, !.confirmed = FALSE]
    ELSE [NoVR EXCEPT !.valid = FALSE,
                      !.error_message = "Please confirm with 'Yes' or cancel with 'No'"]

\* a validator that takes any other answer as the message to send at once
_validate_message_confirmation_send(user_input, context) ==
    IF Lower(user_input) \in {"no", "n", "skip", "skip this profile"}
    THEN [NoVR EXCEPT !.valid = TRUE, !.action = "skip"]
    ELSE IF Lower(user_input) \in {"cancel", "end", "quit", "exit"}
    THEN [NoVR EXCEPT !.valid = TRUE, !.action = "cancel"]
    ELSE [NoVR EXCEPT !.valid = TRUE, !.action = "send", !.edited_message = user_input]

\* InstagramMessageWorkflow._validate_message_confirmation
_validate_message_confirmation(user_input, context) ==
    IF Lower(user_input) \in {"yes", "y", "send", "send message"}
    THEN [NoVR EXCEPT !.valid = TRUE, !.action = "send"]
    ELSE IF Lower(user_input) \in {"no", "n", "skip", "skip this profile"}
    THEN [NoVR EXCEPT !.valid = TRUE, !.action = "skip"]
    ELSE IF Lower(user_input) \in {"cancel", "end", "quit", "exit"}
    THEN [NoVR EXCEPT !.valid = TRUE, !.action = "cancel"]
    ELSE [NoVR EXCEPT !.valid = TRUE, !.action = "edit", !.edited_message = user_input]

\* InstagramMessageWorkflow._update_state_after_login
_update_state_after_login(state, validation_result) ==
    IF validation_result.confirmed
    THEN state
    ELSE [state EXCEPT !.error_message = "Login cancelled by user",
                       !.workflow_status = "cancelled"]

\* InstagramMessageWorkflow._update_state_after_message_confirmation
_update_state_after_message_confirmation(state, validation_result) ==
    LET s1 == [state EXCEPT !.message_confirmed = validation_result.action]
    IN  IF validation_result.edited_message # None
        THEN [s1 EXCEPT !.message_text = validation_result.edited_message]
        ELSE s1

\* InstagramMessageWorkflow._register_interrupt_configs
MsgInterruptConfigs ==
    [ login_confirmation |->
        [ interrupt_type |-> "login_confirmation",
          message |-> "Please confirm Instagram login",
          instructions |-> "log in, then confirm",
          options |-> <<"Yes, I've logged in", "Cancel">>,
          step_name |-> "login_confirmation" ],
      message_confirmation |->
        [ interrupt_type |-> "message_confirmation",
          message |-> "Confirm or edit message",
          instructions |-> "review, confirm or edit",
          options |-> <<"Send message", "Skip this profile", "Edit", "Cancel">>,
          step_name |-> "message_confirmation" ] ]

\* The text of a category selection is a sequence of characters, so that
\* str.lower, str.split(",") and str.strip can be computed as Python does.

\* str.lower() of a character
LowerChar(ch) ==
    CASE ch = "A" -> "a" [] ch = "B" -> "b" [] ch = "L" -> "l" [] OTHER -> ch

\* str.lower()
LowerStr(str) == [i \in 1..Len(str) |-> LowerChar(str[i])]

\* "," in user_input
HasComma(str) == \E i \in 1..Len(str) : str[i] = ","

\* str.split(",")
RECURSIVE SplitComma(_)
SplitComma(str) ==
    IF ~HasComma(str) THEN <<str>>
    ELSE LET i == CHOOSE k \in 1..Len(str) :
                      str[k] = "," /\ \A j \in 1..(k - 1) : str[j] # ","
         IN  <<SubSeq(str, 1, i - 1)>> \o SplitComma(SubSeq(str, i + 1, Len(str)))

\* str.strip()
RECURSIVE Strip(_)
Strip(str) ==
    IF str # <<>> /\ str[1] = " " THEN Strip(Tail(str))
    ELSE IF str # <<>> /\ str[Len(str)] = " " THEN Strip(SubSeq(str, 1, Len(str) - 1))
    ELSE str

\* next((cat for cat in available_categories if cat.lower() == selection.lower()), None):
\* the sequence of the first matching category, empty when there is none
matching_category(available_categories, selection) ==
    LET found == SelectSeq(available_categories,
                           LAMBDA cat : LowerStr(cat) = LowerStr(selection))
    IN  IF found = <<>> \/ found[1] = <<>> THEN <<>> ELSE <<found[1]>>

\* the selections in order, each replaced by its matching category if any
RECURSIVE valid_selections(_, _)
valid_selections(available_categories, selected) ==
    IF selected = <<>> THEN <<>>
    ELSE matching_category(available_categories, selected[1])
         \o valid_selections(available_categories, Tail(selected))

\* a validator that compares the names case-sensitively
validate_category_selection_exact(user_input, context) ==
    LET selected == IF HasComma(user_input)
                    THEN [i \in 1..Len(SplitComma(user_input)) |->
                              Strip(SplitComma(user_input)[i])]
                    ELSE <<user_input>>
        valid == SelectSeq(selected, LAMBDA sel : \E i \in 1..Len(context) : context[i] = sel)
    IN  IF LowerStr(user_input) = <<"a", "l", "l">>
        THEN [NoVR EXCEPT !.valid = TRUE, !.selected_categories = context]
        ELSE IF valid # <<>>
        THEN [NoVR EXCEPT !.valid = TRUE, !.selected_categories = valid]
        ELSE [NoVR EXCEPT !.valid = FALSE,
                          !.error_message = "Sorry, couldn't find categories matching"]

\* validate_category_selection (context is the list of the available
\* categories)
validate_category_selection(user_input, context) ==
    LET selected == IF HasComma(user_input)
                    THEN [i \in 1..Len(SplitComma(user_input)) |->
                              Strip(SplitComma(user_input)[i])]
                    ELSE <<user_input>>
    IN  IF LowerStr(user_input) = <<"a", "l", "l">>
        THEN [NoVR EXCEPT !.valid = TRUE, !.selected_categories = context]
        ELSE IF valid_selections(context, selected) # <<>>
        THEN [NoVR EXCEPT !.valid = TRUE,
                          !.selected_categories = valid_selections(context, selected)]
        ELSE [NoVR EXCEPT !.valid = FALSE,
                          !.error_message = "Sorry, couldn't find categories matching"]

\* the characters of the answers and category names of the trend workflow
Chars(str) ==
    CASE str = "all" -> <<"a", "l", "l">>
      [] str = "news" -> <<"n", "e", "w", "s">>
      [] str = "tech" -> <<"t", "e", "c", "h">>
      [] str = "yes" -> <<"y", "e", "s">>
      [] str = "no" -> <<"n", "o">>
      [] OTHER -> <<"m", "a", "y", "b", "e">>

\* the category name that has these characters
Str(chars) == IF chars = Chars("news") THEN "news" ELSE "tech"

\* validate_category_selection on an answer and the categories of the
\* trend workflow
validate_category_selection_str(user_input, context) ==
    LET result == validate_category_selection(
                      Chars(user_input), [i \in 1..Len(context) |-> Chars(context[i])])
    IN  [result EXCEPT !.selected_categories = [i \in 1..Len(@) |-> Str(@[i])]]

\* validate_satisfaction_response
validate_satisfaction_response(user_input, context) ==
    IF Lower(user_input) \in {"yes", "y", "satisfied", "ok", "okay", "good", "done"}
    THEN [NoVR EXCEPT !.valid = TRUE, !.satisfied = TRUE]
    ELSE IF Lower(user_input) \in {"no", "n", "not satisfied", "change", "different",
                                   "try again"}
    THEN [NoVR EXCEPT !.valid = TRUE, !.satisfied = FALSE]
    ELSE [NoVR EXCEPT !.valid = FALSE,
                      !.error_message = "Please respond with 'yes' or 'no'"]

\* TrendFindingWorkflow._update_category_selection_state
_update_category_selection_state(state, result) ==
    [state EXCEPT !.selected_categories = result.selected_categories]

\* TrendFindingWorkflow._update_satisfaction_state
_update_satisfaction_state(state, result) ==
    IF result.satisfied
    THEN [state EXCEPT !.is_satisfied = TRUE, !.workflow_status = "completed"]
    ELSE [state EXCEPT !.is_satisfied = FALSE]

\* TrendFindingWorkflow._register_interrupt_configs
TrendInterruptConfigs ==
    [ category_selection |->
        [ interrupt_type |-> "category_selection",
          message |-> "Please select categories from the available options:",
          instructions |-> "select categories, or type 'all'",
          options |-> <<>>,
          step_name |-> "category_selection" ],
      satisfaction_review |->
        [ interrupt_type |-> "satisfaction_review",
          message |-> "Are you satisfied with these trending topics?",
          instructions |-> "yes, or no to try different categories",
          options |-> <<"yes", "no">>,
          step_name |-> "satisfaction_review" ] ]

\* self._interrupt_configs.get(interrupt_type)
_interrupt_configs(interrupt_type) ==
    IF interrupt_type \in DOMAIN MsgInterruptConfigs
    THEN MsgInterruptConfigs[interrupt_type]
    ELSE TrendInterruptConfigs[interrupt_type]

\* config.validation_fn(raw, context)
validation_fn(interrupt_type, raw, context) ==
    CASE interrupt_type = "login_confirmation" -> validate_login_confirmation(raw, context)
      [] interrupt_type = "category_selection" ->
           validate_category_selection_str(raw, context)
      [] interrupt_type = "satisfaction_review" ->
           validate_satisfaction_response(raw, context)
      [] OTHER -> _validate_message_confirmation(raw, context)

\* config.state_update_fn(state, result)
state_update_fn(interrupt_type, state, result) ==
    CASE interrupt_type = "login_confirmation" -> _update_state_after_login(state, result)
      [] interrupt_type = "category_selection" ->
           _update_category_selection_state(state, result)
      [] interrupt_type = "satisfaction_review" -> _update_satisfaction_state(state, result)
      [] OTHER -> _update_state_after_message_confirmation(state, result)

\* InterruptConfig.get_data_builder
get_data_builder(config) ==
    [NoData EXCEPT !.type = config.interrupt_type,
                   !.instructions = config.instructions,
                   !.options = config.options]

\* _build_custom_interrupt_data of the workflow that owns the config, merged
\* over base_data ({**base_data, **custom_data})
_build_custom_interrupt_data(base_data, state, config) ==
    CASE config.interrupt_type = "login_confirmation" ->
           [base_data EXCEPT !.screenshot = state.screenshot_path]
      [] config.interrupt_type = "category_selection" ->
           [base_data EXCEPT !.available_categories = state.categories,
                             !.options = state.categories]
      [] config.interrupt_type = "satisfaction_review" ->
           [base_data EXCEPT !.trends_summary = state.trends_summary,
                             !.selected_categories = state.selected_categories]
      [] OTHER ->
           [base_data EXCEPT !.screenshot = state.screenshot_path,
                             !.profile_url = state.current_profile_url,
                             !.message_text = state.message_text]

\* _build_validation_context of the workflow that owns the config
_build_validation_context(state, config) ==
    IF config.interrupt_type = "category_selection"
    THEN state.categories
    ELSE state.user_input

\* BaseWorkflow._validate_preconditions, the default: no precondition
_validate_preconditions_default(state, config) == [returns |-> FALSE, state |-> state]

\* _validate_preconditions: the state the node returns at once, if any
\* (TrendFindingWorkflow: no categories to select from)
_validate_preconditions(state, config) ==
    IF config.interrupt_type = "category_selection" /\ state.categories = <<>>
    THEN [returns |-> TRUE,
          state |-> [state EXCEPT !.error_message = "No categories available for selection.",
                                  !.workflow_status = "error"]]
    ELSE [returns |-> FALSE, state |-> state]

----------------------------------------------------------------------------
(* langgraph.types.interrupt as create_interrupt calls it. The scratchpad  *)
(* of the task holds the answers already given to this task's interrupts   *)
(* (resume, kept with the checkpoint's pending writes), the answer of the  *)
(* present Command(resume=...) (null) and the number of interrupt() calls  *)
(* made so far in this execution (idx). interrupt() returns the idx-th     *)
(* answer if there is one, else consumes the present answer, else raises   *)
(* GraphInterrupt.                                                          *)

NoScratchpad == [resume |-> <<>>, null |-> None, idx |-> 0]

interrupt(sp) ==
    IF sp.idx < Len(sp.resume)
    THEN [raised |-> FALSE, ret |-> sp.resume[sp.idx + 1],
          sp |-> [sp EXCEPT !.idx = @ + 1]]
    ELSE IF sp.null # None
    THEN [raised |-> FALSE, ret |-> sp.null,
          sp |-> [resume |-> Append(sp.resume, sp.null), null |-> None,
                  idx |-> sp.idx + 1]]
    ELSE [raised |-> TRUE, ret |-> None, sp |-> sp]

\* What a step does: it returns a state ("ok"), raises GraphInterrupt
\* ("interrupt"), raises an exception ("raise") or aborts on the stop event
\* ("cancelled"). wi is the workflow instance's attributes after the step,
\* vcalls the number of validator invocations, sp the scratchpad after it.
Outcome(kind, values, intr, err, sp, vcalls, wi) ==
    [ kind |-> kind, values |-> values, intr |-> intr, err |-> err,
      sp |-> sp, vcalls |-> vcalls, wi |-> wi ]

Ok(values, wi) == Outcome("ok", values, NoIntr, None, NoScratchpad, 0, wi)
Raise(values, err, wi) == Outcome("raise", values, NoIntr, err, NoScratchpad, 0, wi)

\* a create_interrupt whose guidance interrupt drops the original data
create_interrupt_bare(message, data, interrupt_type, validation_context, sp) ==
    LET first == interrupt(sp) IN
    IF first.raised
    THEN [ kind |-> "interrupt", intr |-> [message |-> message, data |-> data],
           isdict |-> FALSE, vr |-> NoVR, raw |-> None, sp |-> first.sp, vcalls |-> 0 ]
    ELSE
    LET validation_input == first.ret
        validation_result == validation_fn(interrupt_type, validation_input, validation_context)
    IN  IF validation_result.valid
        THEN [ kind |-> "return", intr |-> NoIntr, isdict |-> TRUE,
               vr |-> validation_result, raw |-> None, sp |-> first.sp, vcalls |-> 1 ]
        ELSE
        LET error_message ==
                IF validation_result.error_message # None
                THEN validation_result.error_message
                ELSE "Invalid input. Please try again."
            guidance_data == [NoData EXCEPT !.error = TRUE,
                                          !.error_message = error_message,
                                          !.previous_input = validation_input]
            second == interrupt(first.sp)
        IN  IF second.raised
            THEN [ kind |-> "interrupt",
                   intr |-> [message |-> error_message, data |-> guidance_data],
                   isdict |-> FALSE, vr |-> NoVR, raw |-> None,
                   sp |-> second.sp, vcalls |-> 1 ]
            ELSE [ kind |-> "return", intr |-> NoIntr, isdict |-> FALSE,
                   vr |-> NoVR, raw |-> second.ret, sp |-> second.sp, vcalls |-> 1 ]

\* BaseWorkflow.create_interrupt: the value it returns, or the interrupt it raises
create_interrupt(message, data, interrupt_type, validation_context, sp) ==
    LET first == interrupt(sp) IN
    IF first.raised
    THEN [ kind |-> "interrupt", intr |-> [message |-> message, data |-> data],
           isdict |-> FALSE, vr |-> NoVR, raw |-> None, sp |-> first.sp, vcalls |-> 0 ]
    ELSE
    LET validation_input == first.ret
        validation_result == validation_fn(interrupt_type, validation_input, validation_context)
    IN  IF validation_result.valid
        THEN [ kind |-> "return", intr |-> NoIntr, isdict |-> TRUE,
               vr |-> validation_result, raw |-> None, sp |-> first.sp, vcalls |-> 1 ]
        ELSE
        LET error_message ==
                IF validation_result.error_message # None
                THEN validation_result.error_message
                ELSE "Invalid input. Please try again."
            guidance_data == [data EXCEPT !.error = TRUE,
                                          !.error_message = error_message,
                                          !.previous_input = validation_input]
            second == interrupt(first.sp)
        IN  IF second.raised
            THEN [ kind |-> "interrupt",
                   intr |-> [message |-> error_message, data |-> guidance_data],
                   isdict |-> FALSE, vr |-> NoVR, raw |-> None,
                   sp |-> second.sp, vcalls |-> 1 ]
            ELSE [ kind |-> "return", intr |-> NoIntr, isdict |-> FALSE,
                   vr |-> NoVR, raw |-> second.ret, sp |-> second.sp, vcalls |-> 1 ]

\* an interaction node that copies an attribute of the instance into the state
\* before it suspends
interaction_node_stateful(interrupt_type, state0, sp, wi) ==
    LET config == _interrupt_configs(interrupt_type)
        state == [update_step(state0, config.step_name) EXCEPT !.processed = wi.nprofiles]
        base_data == get_data_builder(config)
        data == _build_custom_interrupt_data(base_data, state, config)
        validation_context == _build_validation_context(state, config)
        result == create_interrupt(config.message, data, interrupt_type,
                                   validation_context, sp)
    IN  IF _validate_preconditions(state, config).returns
        THEN Ok(_validate_preconditions(state, config).state, wi)
        ELSE IF result.kind = "interrupt"
        THEN Outcome("interrupt", state0, result.intr, None, result.sp, result.vcalls, wi)
        ELSE IF ~result.isdict
        THEN \* result is the raw str: result.get raises AttributeError
             Outcome("raise", state0, NoIntr, "'str' object has no attribute 'get'",
                     result.sp, result.vcalls, wi)
        ELSE IF result.vr.valid
        THEN Outcome("ok", state_update_fn(interrupt_type, state, result.vr),
                     NoIntr, None, result.sp, result.vcalls, wi)
        ELSE Outcome("ok", state, NoIntr, None, result.sp, result.vcalls, wi)

\* BaseWorkflow.create_human_interaction_node(interrupt_type).interaction_node
interaction_node(interrupt_type, state0, sp, wi) ==
    LET config == _interrupt_configs(interrupt_type)
        state == update_step(state0, config.step_name)
        base_data == get_data_builder(config)
        data == _build_custom_interrupt_data(base_data, state, config)
        validation_context == _build_validation_context(state, config)
        result == create_interrupt(config.message, data, interrupt_type,
                                   validation_context, sp)
    IN  IF _validate_preconditions(state, config).returns
        THEN Ok(_validate_preconditions(state, config).state, wi)
        ELSE IF result.kind = "interrupt"
        THEN Outcome("interrupt", state0, result.intr, None, result.sp, result.vcalls, wi)
        ELSE IF ~result.isdict
        THEN \* result is the raw str: result.get raises AttributeError
             Outcome("raise", state0, NoIntr, "'str' object has no attribute 'get'",
                     result.sp, result.vcalls, wi)
        ELSE IF result.vr.valid
        THEN Outcome("ok", state_update_fn(interrupt_type, state, result.vr),
                     NoIntr, None, result.sp, result.vcalls, wi)
        ELSE Outcome("ok", state, NoIntr, None, result.sp, result.vcalls, wi)

----------------------------------------------------------------------------
(* The workflow instance: attributes set on self by the steps and shared   *)
(* by every thread of the workflow (self.automator, self.playwright).      *)

NoInstance ==
    [ automator |-> FALSE,   \* hasattr(self, "automator")
      nprofiles |-> 0,       \* len(self.automator.profiles)
      browser |-> FALSE,     \* the automator's browser context is open
      playwright |-> FALSE ] \* self.playwright is started

\* @check_cancellation, the guard at the top of a long-running step: the
\* step aborts with the Cancelled signal when the workflow's stop event is set
check_cancellation(stop) == stop = "set"

\* the steps decorated with @check_cancellation
GuardedNodes(w) ==
    CASE w = "messaging" -> {"send_message"}
      [] w = "scraping" -> {"build_embeddings"}
      [] OTHER -> {}

Cancelled(values, wi) == Outcome("cancelled", values, NoIntr, None, NoScratchpad, 0, wi)

----------------------------------------------------------------------------
(* InstagramMessageWorkflow: the steps. Each operator is the set of        *)
(* outcomes of the step on a state, one per behaviour of its environment   *)
(* (the uploads directory, the CSV file, the browser, Instagram).          *)

Msg_extract_parameters(state0, wi) ==
    LET state == update_step(state0, "parameter_extraction") IN
    { Ok([state EXCEPT !.csv_path = "uploads/profiles.csv",
                       !.max_profiles = MaxProfilesCfg], wi),
      Ok([state EXCEPT !.csv_path = None,
                       !.error_message = "No uploaded CSV file found",
                       !.max_profiles = MaxProfilesCfg], wi) }

route_after_extraction(state) ==
    IF state.csv_path # None THEN "validate_csv" ELSE END

validate_csv(state0, wi) ==
    LET state == update_step(state0, "csv_validation") IN
    { Ok(state, wi),
      Ok([state EXCEPT !.error_message = "CSV missing required columns",
                       !.workflow_status = "error"], wi) }

route_after_validation(state) ==
    IF state.error_message # None THEN END ELSE "initialize_automation"

initialize_automation(state0, wi) ==
    LET state == update_step(state0, "automation_initialization")
        failed == [state EXCEPT !.error_message = "Error initializing automation",
                                !.workflow_status = "error"]
    IN  \* async_playwright().start() raises: the handler stops self.playwright
        { Ok(failed, [wi EXCEPT !.playwright = FALSE]) }
        \cup
        \* load_profiles() fails: returns with playwright started, no browser
        { Ok([state EXCEPT !.error_message = "Failed to load profiles from CSV",
                           !.workflow_status = "error"],
             [automator |-> TRUE, nprofiles |-> 0, browser |-> FALSE,
              playwright |-> TRUE]) }
        \cup
        \* setup() opened the browser, goto/screenshot raises: playwright stopped
        { Ok(failed, [automator |-> TRUE, nprofiles |-> n, browser |-> TRUE,
                      playwright |-> FALSE]) : n \in 0..MaxLoaded }
        \cup
        { Ok([state EXCEPT !.screenshot_path = "temp_screenshot.png"],
             [automator |-> TRUE, nprofiles |-> n, browser |-> TRUE,
              playwright |-> TRUE]) : n \in 0..MaxLoaded }

route_after_login(state) ==
    IF state.error_message # None \/ state.workflow_status = "cancelled"
    THEN END ELSE "process_profiles"

\* InstagramMessageAutomator.analyze_profile: (success, state) pairs
analyze_profile(profile_url, state) ==
    { \* a message is generated for the profile
      [ success |-> TRUE,
        state |-> [state EXCEPT !.current_profile_url = profile_url,
                                !.message_text = "generated",
                                !.screenshot_path = "cache/screenshot.png"] ],
      \* already messaged, or a personal account
      [ success |-> FALSE, state |-> [state EXCEPT !.current_profile_url = 0] ],
      \* an exception after the profile page was opened
      [ success |-> FALSE, state |-> [state EXCEPT !.current_profile_url = profile_url] ] }

Done(state) ==
    [state EXCEPT !.automation_result =
                      [set |-> TRUE, success |-> TRUE, processed |-> state.processed,
                       successful |-> state.successful],
                  !.workflow_status = "completed"]

\* InstagramMessageWorkflow.process_profiles: the (raised, state) results. It
\* calls itself after a profile that could not be analysed; it raises
\* AttributeError where it reads self.automator and there is none.
RECURSIVE process_profiles_results(_, _)
process_profiles_results(state0, wi) ==
    LET state1 == update_step(state0, "profile_processing")
        sent == state1.message_sent
        state2 == IF sent
                  THEN [state1 EXCEPT !.message_sent = FALSE,
                                      !.processed = @ + 1,
                                      !.successful = @ + 1]
                  ELSE state1
    IN  IF sent /\ state2.processed >= state2.max_profiles
        THEN {[raised |-> FALSE, state |-> state2]}
        ELSE IF state2.current_profile_url # 0
        THEN {[raised |-> FALSE, state |-> state2]}
        ELSE IF ~wi.automator
        THEN {[raised |-> TRUE, state |-> state0]}
        ELSE IF state2.processed < wi.nprofiles /\ state2.processed < state2.max_profiles
        THEN UNION { IF r.success
                     THEN {[raised |-> FALSE, state |-> r.state]}
                     ELSE process_profiles_results(
                              [r.state EXCEPT !.processed = state2.processed + 1], wi)
                     : r \in analyze_profile(state2.processed + 1, state2) }
        ELSE {[raised |-> FALSE, state |-> Done(state2)]}

process_profiles(state0, wi) ==
    { IF r.raised
      THEN Raise(state0, "'InstagramMessageWorkflow' object has no attribute 'automator'", wi)
      ELSE Ok(r.state, wi)
      : r \in process_profiles_results(state0, wi) }

\* a routing function that tests for a prepared message before the error
route_after_processing_message_first(state) ==
    IF state.current_profile_url # 0 /\ state.message_text # None
    THEN "message_confirmation"
    ELSE IF state.error_message # None THEN END
    ELSE "finalize_automation"

route_after_processing(state) ==
    IF state.error_message # None THEN END
    ELSE IF state.current_profile_url # 0 /\ state.message_text # None
    THEN "message_confirmation"
    ELSE "finalize_automation"

cancel_workflow(state0, wi) ==
    LET state == update_step(state0, "workflow_cancellation") IN
    { Ok([state EXCEPT !.workflow_status = "cancelled",
                       !.automation_result =
                           [set |-> TRUE, success |-> FALSE,
                            processed |-> state.processed,
                            successful |-> state.successful]], wi) }

skip_profile(state0, wi) ==
    LET state == update_step(state0, "profile_skipping") IN
    { Ok([state EXCEPT !.current_profile_url = 0, !.message_text = None,
                       !.processed = @ + 1], wi) }

\* a routing function that sends unless the answer was a cancel or a skip
route_after_message_confirmation_default_send(state) ==
    IF state.message_confirmed = "cancel" THEN "cancel_workflow"
    ELSE IF state.message_confirmed = "skip" THEN "skip_profile"
    ELSE "prepare_message"

route_after_message_confirmation(state) ==
    IF state.message_confirmed = "cancel" THEN "cancel_workflow"
    ELSE IF state.message_confirmed = "send" THEN "prepare_message"
    ELSE IF state.message_confirmed = "edit" THEN "message_confirmation"
    ELSE "skip_profile"

prepare_message(state0, wi) ==
    LET state == update_step(state0, "message_preparation") IN
    { \* prepare_and_type_message typed the message
      Ok([state EXCEPT !.screenshot_path = "temp_screenshot.png"], wi),
      \* it failed
      Ok([state EXCEPT !.error_message = "Failed to prepare and type message"], wi) }

send_message(state0, wi) ==
    LET state == update_step(state0, "message_sending") IN
    { Ok([state EXCEPT !.message_sent = TRUE, !.current_profile_url = 0,
                       !.message_text = None], wi),
      Ok([state EXCEPT !.error_message = "Failed to send message"], wi) }

finalize_automation(state0, wi) ==
    LET state == update_step(state0, "automation_finalization")
        state1 == IF ~state.automation_result.set THEN Done(state) ELSE state
    IN  { Ok([state1 EXCEPT !.workflow_status = "completed"],
             [wi EXCEPT !.browser = FALSE, !.playwright = FALSE]) }

----------------------------------------------------------------------------
(* InstagramCollaborationWorkflow *)

\* the "niche:" parameter of the input, None when the input has none
NicheOf(user_input) == IF user_input = "niche: fitness" THEN "fitness" ELSE None

Collab_extract_parameters(state0, wi) ==
    LET state == update_step(state0, "parameter_extraction") IN
    IF NicheOf(state.user_input) # None
    THEN { Ok([state EXCEPT !.niche = NicheOf(state.user_input)], wi) }
    ELSE { Raise(state0, "Niche is required", wi) }

find_collaborations(state0, wi) ==
    LET state == update_step(state0, "collaboration_search") IN
    { Ok([state EXCEPT !.collaboration_result = "profiles",
                       !.workflow_status = "completed"], wi),
      Ok([state EXCEPT !.error_message = "Error finding collaborations",
                       !.workflow_status = "error"], wi) }

----------------------------------------------------------------------------
(* InstagramScrapingWorkflow. The usernames of a request are 1..n; the     *)
(* state keeps their number n.                                              *)

\* the inputs of the scraping workflow
ScrapeInputs ==
    {"usernames: a", "usernames: a, b", "usernames: @", "hello",
     "usernames: a; force_reset: true"}

\* extract_parameters: the "usernames:" parameter, -1 when the input has none
\* ("@" is a value whose names are all empty once stripped of '@')
UsernamesOf(user_input) ==
    CASE user_input \in {"usernames: a", "usernames: a; force_reset: true"} -> 1
      [] user_input = "usernames: a, b" -> 2
      [] user_input = "usernames: @" -> 0
      [] OTHER -> -1

\* extract_parameters: the "force_reset:" parameter
ForceResetOf(user_input) == user_input = "usernames: a; force_reset: true"

Scr_extract_parameters(state0, wi) ==
    LET state == update_step(state0, "parameter_extraction")
        n == UsernamesOf(state.user_input)
        state1 == IF n >= 0 THEN [state EXCEPT !.usernames = n] ELSE state
        state2 == IF ForceResetOf(state.user_input)
                  THEN [state1 EXCEPT !.force_reset = TRUE] ELSE state1
    IN  IF state2.usernames = -1
        THEN { Raise(state0, "'usernames'", wi) }    \* state["usernames"]: KeyError
        ELSE IF state2.usernames = 0
        THEN { Ok([state2 EXCEPT !.error_message = "No Instagram usernames found in input",
                                 !.workflow_status = "error"], wi) }
        ELSE { Ok(state2, wi) }

\* handle_force_rebuild: the tables after it
handle_force_rebuild(state, d) ==
    IF state.force_reset THEN [tracked |-> {}, posts |-> {}] ELSE d

\* scrape_instagram with no usernames
scrape_instagram_no_usernames(state0) ==
    [update_step(state0, "instagram_scraping") EXCEPT
        !.error_message = "No usernames provided for scraping",
        !.workflow_status = "error"]

\* scrape_instagram after scrape_and_save_multiple returned result
scrape_instagram_result(state0, result) ==
    [update_step(state0, "instagram_scraping") EXCEPT
        !.scraping_result = IF result THEN "True" ELSE "False",
        !.workflow_status = "scraped"]

\* build_embeddings (the body under the @check_cancellation guard)
build_embeddings(state0, wi, d) ==
    LET state == update_step(state0, "embedding_building") IN
    IF d.posts = {}
    THEN { Ok([state EXCEPT !.error_message = "No posts available for embedding",
                            !.workflow_status = "error"], wi) }
    ELSE { Ok([state EXCEPT !.embedding_result = "embeddings",
                            !.workflow_status = "completed"], wi),
           Ok([state EXCEPT !.error_message = "Error building embeddings",
                            !.workflow_status = "error"], wi) }

----------------------------------------------------------------------------
(* TrendFindingWorkflow. A location is a key of COUNTRY_MAPPING or not; the *)
(* trending items are known by their categories; the categories of the     *)
(* model are "news" and "tech".                                             *)

\* the inputs of the trend workflow: a known location and an unknown one
TrendInputs == {"global", "atlantis"}

\* the answers a human gives to the trend workflow's interrupts
TrendAnswers == {"all", "news", "yes", "no", "maybe"}

\* sorted(list(all_categories)): the distinct categories of the items
DistinctCategories(trend_data) ==
    SelectSeq(<<"news", "tech">>,
              LAMBDA cat : \E i \in 1..Len(trend_data) : trend_data[i] = cat)

validate_location(state0, wi) ==
    LET state == update_step(state0, "location_validation") IN
    IF state.user_input = "global"
    THEN { Ok([state EXCEPT !.location = "global"], wi) }
    ELSE { \* Gemini interprets the location
           Ok([state EXCEPT !.location = "US"], wi),
           \* nobody does: the suggestions are the error message
           Ok([state EXCEPT !.error_message = "Location not found",
                            !.workflow_status = "error"], wi) }

route_after_location(state) ==
    IF state.error_message # None THEN END ELSE "fetch_trends"

fetch_trends(state0, wi) ==
    LET state == update_step(state0, "trend_fetching") IN
    { Ok([state EXCEPT !.trend_data = td], wi)
      : td \in {<<>>, <<"">>, <<"news">>, <<"tech", "news">>} }
    \cup
    { Ok([state EXCEPT !.error_message = "Error fetching trends",
                       !.workflow_status = "error"], wi) }

analyze_categories(state0, wi) ==
    LET state == update_step(state0, "category_analysis") IN
    IF state.trend_data = <<>>
    THEN { Ok([state EXCEPT !.error_message = "No trending data found.",
                            !.workflow_status = "error"], wi) }
    ELSE IF DistinctCategories(state.trend_data) = <<>>
    THEN { Ok([state EXCEPT !.error_message = "No categories found in trending data.",
                            !.workflow_status = "error"], wi) }
    ELSE { Ok([state EXCEPT !.categories = DistinctCategories(state.trend_data)], wi) }

route_after_categories(state) ==
    IF state.error_message # None \/ state.categories = <<>>
    THEN END ELSE "process_category_selection"

route_after_selection(state) ==
    IF state.error_message # None THEN END
    ELSE IF state.is_satisfied THEN END
    ELSE IF state.selected_categories # <<>> THEN "show_results"
    ELSE "analyze_categories"

show_results(state0, wi) ==
    LET state == update_step(state0, "result_display")
        selected_categories ==
            IF state.selected_categories # <<>> THEN state.selected_categories
            ELSE IF state.user_input # None /\ state.user_input # "all"
            THEN <<state.user_input>>
            ELSE state.categories
        filtered_trends ==
            IF selected_categories # <<>>
            THEN SelectSeq(state.trend_data,
                           LAMBDA cat : \E i \in 1..Len(selected_categories) :
                                            selected_categories[i] = cat)
            ELSE state.trend_data
    IN  IF filtered_trends = <<>>
        THEN { Ok([state EXCEPT !.error_message = "No trending topics found",
                                !.workflow_status = "error"], wi) }
        ELSE { Ok([state EXCEPT !.trends_summary = "trends by category"], wi) }

route_after_satisfaction(state) ==
    IF state.error_message # None THEN END
    ELSE IF state.is_satisfied THEN END
    ELSE "analyze_categories"

----------------------------------------------------------------------------
(* The graphs: define_nodes, define_edges, get_entry_point                 *)

Workflows == {"messaging", "collaboration", "scraping", "trend"}

Nodes(w) ==
    CASE w = "messaging" ->
           {"extract_parameters", "validate_csv", "initialize_automation",
            "login_confirmation", "process_profiles", "message_confirmation",
            "prepare_message", "send_message", "skip_profile", "cancel_workflow",
            "finalize_automation"}
      [] w = "collaboration" -> {"extract_parameters", "find_collaborations"}
      [] w = "trend" ->
           {"validate_location", "fetch_trends", "analyze_categories",
            "process_category_selection", "show_results", "human_satisfaction_review"}
      [] OTHER -> {"extract_parameters", "scrape_instagram", "build_embeddings"}

get_entry_point(w) == IF w = "trend" THEN "validate_location" ELSE "extract_parameters"

\* nodes built by create_human_interaction_node
InteractionNodes(w) ==
    CASE w = "messaging" -> {"login_confirmation", "message_confirmation"}
      [] w = "trend" -> {"process_category_selection", "human_satisfaction_review"}
      [] OTHER -> {}

\* async def steps: they await, so other requests run while they execute
AsyncNodes(w) ==
    CASE w = "messaging" ->
           {"initialize_automation", "process_profiles", "prepare_message",
            "send_message", "skip_profile", "cancel_workflow", "finalize_automation"}
      [] w = "collaboration" -> {"find_collaborations"}
      [] OTHER -> {"build_embeddings"}

\* the steps of the messaging workflow that have a conditional edge
ConditionalNodes ==
    {"extract_parameters", "validate_csv", "login_confirmation",
     "process_profiles", "message_confirmation"}

\* add_conditional_edges(node, path, ...): the key the routing function
\* returns on state
RoutingKey(node, state) ==
    CASE node = "extract_parameters" -> route_after_extraction(state)
      [] node = "validate_csv" -> route_after_validation(state)
      [] node = "login_confirmation" -> route_after_login(state)
      [] node = "process_profiles" -> route_after_processing(state)
      [] OTHER -> route_after_message_confirmation(state)

\* a routing table of message_confirmation that has no entry for an edit
PathMap_no_edit(node) ==
    CASE node = "extract_parameters" -> [validate_csv |-> "validate_csv", END |-> END]
      [] node = "validate_csv" ->
           [initialize_automation |-> "initialize_automation", END |-> END]
      [] node = "login_confirmation" ->
           [process_profiles |-> "process_profiles", END |-> END]
      [] node = "process_profiles" ->
           [message_confirmation |-> "message_confirmation",
            finalize_automation |-> "finalize_automation", END |-> END]
      [] OTHER ->
           [prepare_message |-> "prepare_message", cancel_workflow |-> "cancel_workflow",
            skip_profile |-> "skip_profile"]

\* add_conditional_edges(node, ..., path_map): the routing table of the edge
PathMap(node) ==
    CASE node = "extract_parameters" -> [validate_csv |-> "validate_csv", END |-> END]
      [] node = "validate_csv" ->
           [initialize_automation |-> "initialize_automation", END |-> END]
      [] node = "login_confirmation" ->
           [process_profiles |-> "process_profiles", END |-> END]
      [] node = "process_profiles" ->
           [message_confirmation |-> "message_confirmation",
            finalize_automation |-> "finalize_automation", END |-> END]
      [] OTHER ->
           [prepare_message |-> "prepare_message", cancel_workflow |-> "cancel_workflow",
            skip_profile |-> "skip_profile",
            message_confirmation |-> "message_confirmation"]

\* define_edges: the successor of node on state (add_edge, add_conditional_edges).
\* A key the routing table does not hold makes the engine raise; the
\* invocation goes no further.
Route(w, node, state) ==
    CASE w = "messaging" ->
        ( CASE node \in ConditionalNodes ->
                 IF RoutingKey(node, state) \in DOMAIN PathMap(node)
                 THEN PathMap(node)[RoutingKey(node, state)]
                 ELSE END
            [] node = "initialize_automation" -> "login_confirmation"
            [] node = "prepare_message" -> "send_message"
            [] node = "skip_profile" -> "process_profiles"
            [] node = "cancel_workflow" -> "finalize_automation"
            [] node = "send_message" -> "process_profiles"
            [] OTHER -> END )
      [] w = "collaboration" ->
        ( IF node = "extract_parameters" THEN "find_collaborations" ELSE END )
      [] w = "trend" ->
        ( CASE node = "validate_location" -> route_after_location(state)
            [] node = "fetch_trends" -> "analyze_categories"
            [] node = "analyze_categories" -> route_after_categories(state)
            [] node = "process_category_selection" -> route_after_selection(state)
            [] node = "show_results" -> "human_satisfaction_review"
            [] OTHER -> route_after_satisfaction(state) )
      [] OTHER ->
        ( CASE node = "extract_parameters" -> "scrape_instagram"
            [] node = "scrape_instagram" -> "build_embeddings"
            [] OTHER -> END )

\* the outcomes of executing node of workflow w (every step but
\* scrape_instagram, which runs the scraper)
StepOutcomes(w, node, state, sp, wi, d) ==
    CASE w = "messaging" ->
        ( CASE node = "extract_parameters" -> Msg_extract_parameters(state, wi)
            [] node = "validate_csv" -> validate_csv(state, wi)
            [] node = "initialize_automation" -> initialize_automation(state, wi)
            [] node = "login_confirmation" ->
                 {interaction_node("login_confirmation", state, sp, wi)}
            [] node = "process_profiles" -> process_profiles(state, wi)
            [] node = "message_confirmation" ->
                 {interaction_node("message_confirmation", state, sp, wi)}
            [] node = "prepare_message" -> prepare_message(state, wi)
            [] node = "send_message" -> send_message(state, wi)
            [] node = "skip_profile" -> skip_profile(state, wi)
            [] node = "cancel_workflow" -> cancel_workflow(state, wi)
            [] OTHER -> finalize_automation(state, wi) )
      [] w = "collaboration" ->
        ( IF node = "extract_parameters"
          THEN Collab_extract_parameters(state, wi)
          ELSE find_collaborations(state, wi) )
      [] w = "trend" ->
        ( CASE node = "validate_location" -> validate_location(state, wi)
            [] node = "fetch_trends" -> fetch_trends(state, wi)
            [] node = "analyze_categories" -> analyze_categories(state, wi)
            [] node = "process_category_selection" ->
                 {interaction_node("category_selection", state, sp, wi)}
            [] node = "show_results" -> show_results(state, wi)
            [] OTHER -> {interaction_node("satisfaction_review", state, sp, wi)} )
      [] OTHER ->
        ( IF node = "extract_parameters"
          THEN Scr_extract_parameters(state, wi)
          ELSE build_embeddings(state, wi, d) )

----------------------------------------------------------------------------
(* Checkpoints and RunResults *)

\* A thread's checkpoint: its channel values, the step scheduled next, and
\* the pending writes of that step (the answers given to its interrupts and
\* the value of the interrupt it is suspended at)
NoCheckpoint ==
    [ exists |-> FALSE, values |-> BlankState, next |-> None, resume |-> <<>>,
      intr |-> NoIntr ]

RunResult(status, message, data, thread_id, error_message, values) ==
    [ status |-> status, message |-> message, data |-> data,
      thread_id |-> thread_id, error_message |-> error_message, values |-> values ]

NoRunResult == RunResult(None, None, NoData, 0, None, BlankState)

\* a run/resume that answers a suspension with the default data only
AwaitingResult_generic(intr, thread_id) ==
    RunResult("awaiting_human_input", "Input required",
              [NoData EXCEPT !.type = "generic"], thread_id, None, BlankState)

\* run/resume: "__interrupt__" in result
AwaitingResult(intr, thread_id) ==
    RunResult("awaiting_human_input", intr.message, intr.data, thread_id, None, BlankState)

\* run/resume: except Exception as e
ErrorResult(err, thread_id) ==
    RunResult("error", None, NoData, thread_id, err, BlankState)

\* resume: the "cancel" command
CancelledResult(thread_id) ==
    RunResult("cancelled", "Workflow cancelled by user", NoData, thread_id, None, BlankState)

\* an exception that is no Exception leaves run/resume: there is no RunResult
Propagated(thread_id) ==
    RunResult("raised", None, NoData, thread_id, "CancelledError", BlankState)

\* run/resume: the result of a graph that ran to END with these values
ResultOf(values, thread_id) ==
    IF values.workflow_status = "completed"
    THEN RunResult("completed", None, NoData, thread_id, None, values)
    ELSE IF values.error_message # None
    THEN ErrorResult(values.error_message, thread_id)
    ELSE RunResult("completed", None, NoData, thread_id, None, values)

\* a resume that compares the raw input with "cancel", without lower()
IsCancelCommand_exact(user_input) == user_input = "cancel"

\* resume: if user_input.lower() == "cancel"
IsCancelCommand(user_input) == Lower(user_input) = "cancel"

IdleCall ==
    [ st |-> "idle",          \* idle, running, in_step, returned
      op |-> None,            \* run, resume
      wf |-> None, thread |-> 0, input |-> None,
      values |-> BlankState,  \* the channel values of this invocation
      node |-> None,          \* the step to execute next
      sp |-> NoScratchpad,
      ran |-> <<>>,           \* the steps this call invoked, in order
      statuses |-> <<>>,      \* workflow_status after each step that returned
      oks |-> 0,              \* steps that returned a state
      vcalls |-> 0,           \* validator invocations
      raisedAt |-> 0,         \* position in ran of the step that raised
      err |-> None,           \* the message of the exception it raised
      cancel_seen |-> FALSE,  \* a poll point of a step of the call saw the stop event set
      pre |-> NoCheckpoint,   \* the thread's checkpoint when the call began
      prelast |-> None,       \* the thread's last RunResult status then
      result |-> NoRunResult ]

\* an engine that executes the step again after its exception
AfterRaise_retry(cl, err) == [cl EXCEPT !.st = "running"]

\* what the engine does with a step's exception (run/resume: except Exception)
AfterRaise(cl, err) ==
    [cl EXCEPT !.st = "returned", !.result = ErrorResult(err, cl.thread)]

\* the engine after a step that returned a state routed to nxt
AfterOk(cl, values, nxt) ==
    IF nxt = END
    THEN [cl EXCEPT !.st = "returned", !.values = values, !.node = END,
                    !.result = ResultOf(values, cl.thread)]
    ELSE [cl EXCEPT !.st = "running", !.values = values, !.node = nxt,
                    !.sp = NoScratchpad]

\* The end of a step of call c with outcome o: the Pregel loop writes the
\* checkpoint and goes on, or ainvoke returns / raises and run/resume
\* builds the RunResult.
Finish(c, o) ==
    LET cl == calls[c]
        w == cl.wf
        t == cl.thread
        ck == memory[w][t]
        resume2 == IF cl.node \in InteractionNodes(w) THEN o.sp.resume ELSE ck.resume
        cl1 == [cl EXCEPT !.ran = Append(@, cl.node), !.vcalls = @ + o.vcalls,
                          !.sp = o.sp,
                          !.cancel_seen = \/ @
                                          \/ scr.active /\ scr.c = c /\ scr.seen]
        \* the thread whose step last assigned attributes of the instance
        hist1 == IF cl.node = "initialize_automation" \/ o.wi # inst[w]
                 THEN [hist EXCEPT !.owner[w] = t] ELSE hist
    IN  /\ inst' = [inst EXCEPT ![w] = o.wi]
        /\ CASE o.kind = "ok" ->
                LET nxt == Route(w, cl.node, o.values)
                    cl2 == AfterOk([cl1 EXCEPT !.statuses = Append(@, o.values.workflow_status),
                                               !.oks = @ + 1],
                                   o.values, nxt)
                IN  /\ memory' = [memory EXCEPT ![w][t] =
                           [exists |-> TRUE, values |-> o.values,
                            next |-> IF nxt = END THEN None ELSE nxt,
                            resume |-> <<>>, intr |-> NoIntr]]
                    /\ calls' = [calls EXCEPT ![c] = cl2]
                    /\ hist' = IF cl2.st = "returned"
                               THEN [hist1 EXCEPT !.last[w][t] = cl2.result.status]
                               ELSE hist1
             [] o.kind = "interrupt" ->
                /\ memory' = [memory EXCEPT ![w][t].resume = resume2,
                                            ![w][t].intr = o.intr]
                /\ calls' = [calls EXCEPT ![c] =
                       [cl1 EXCEPT !.st = "returned",
                                   !.result = AwaitingResult(o.intr, t)]]
                /\ hist' = [hist1 EXCEPT !.last[w][t] = "awaiting_human_input"]
             [] o.kind = "raise" ->
                LET cl2 == AfterRaise([cl1 EXCEPT !.raisedAt = Len(cl1.ran),
                                                  !.err = o.err], o.err)
                IN  /\ memory' = [memory EXCEPT ![w][t].resume = resume2]
                    /\ calls' = [calls EXCEPT ![c] = cl2]
                    /\ hist' = IF cl2.st = "returned"
                               THEN [hist1 EXCEPT !.last[w][t] = cl2.result.status]
                               ELSE hist1
             [] OTHER ->
                \* the Cancelled signal: caught as an Exception, or not
                \E caught \in BOOLEAN :
                    LET res == IF caught THEN ErrorResult("Operation cancelled", t)
                               ELSE Propagated(t)
                    IN  /\ memory' = memory
                        /\ calls' = [calls EXCEPT ![c] =
                               [cl1 EXCEPT !.st = "returned", !.result = res]]
                        /\ hist' = [hist1 EXCEPT !.last[w][t] = res.status]

----------------------------------------------------------------------------
(* BaseWorkflow.run and BaseWorkflow.resume *)

\* a call's record when it begins
NewCall(op, w, t, user_input) ==
    [IdleCall EXCEPT !.op = op, !.wf = w, !.thread = t, !.input = user_input,
                     !.pre = memory[w][t], !.prelast = hist.last[w][t]]

\* run(user_input, thread_id): ainvoke(initial_state) writes the input onto
\* the thread's channels (a thread that has a checkpoint keeps its other
\* values), saves the checkpoint and schedules the entry point.
BeginRunCall(c, w, t, user_input) ==
    LET ck == memory[w][t]
        values == IF ck.exists
                  THEN [ck.values EXCEPT !.user_input = user_input]
                  ELSE InitialState(user_input)
    IN  /\ calls[c].st = "idle"
        /\ hist.ncalls < MaxCalls
        /\ memory' = [memory EXCEPT ![w][t] =
               [exists |-> TRUE, values |-> values, next |-> get_entry_point(w),
                resume |-> <<>>, intr |-> NoIntr]]
        /\ calls' = [calls EXCEPT ![c] =
               [NewCall("run", w, t, user_input) EXCEPT
                   !.st = "running", !.values = values, !.node = get_entry_point(w)]]
        /\ hist' = [hist EXCEPT !.ncalls = @ + 1, !.last[w][t] = "running"]

\* run() called by a caller that is not the leads server
BeginRun(c, w, t, user_input) ==
    /\ BeginRunCall(c, w, t, user_input)
    /\ UNCHANGED <<inst, scr, db, sessions, conversations>>

\* resume(user_input, thread_id) with the "cancel" command
ResumeCancelCall(c, w, t, user_input) ==
    /\ calls[c].st = "idle"
    /\ hist.ncalls < MaxCalls
    /\ IsCancelCommand(user_input)
    /\ calls' = [calls EXCEPT ![c] =
           [NewCall("resume", w, t, user_input) EXCEPT
               !.st = "returned", !.result = CancelledResult(t)]]
    /\ hist' = [hist EXCEPT !.last[w][t] = "cancelled", !.ncalls = @ + 1]
    /\ memory' = memory

\* resume() with the "cancel" command, called by a caller that is not the leads server
ResumeCancel(c, w, t, user_input) ==
    /\ ResumeCancelCall(c, w, t, user_input)
    /\ UNCHANGED <<inst, scr, db, sessions, conversations>>

\* an engine that starts a resumed thread again from the entry point
ResumeNode_restart(w, ck) == get_entry_point(w)

\* ainvoke(Command(resume=...)): the step a resumed thread executes first is
\* the pending step of its checkpoint
ResumeNode(w, ck) == ck.next

\* resume(user_input, thread_id): ainvoke(Command(resume=user_input)). With
\* no checkpoint ainvoke raises (there is no input to start from); with a
\* checkpoint that has no pending step it returns the stored values.
BeginResumeCall(c, w, t, user_input) ==
    LET ck == memory[w][t]
        cl == NewCall("resume", w, t, user_input)
    IN  /\ calls[c].st = "idle"
        /\ hist.ncalls < MaxCalls
        /\ ~IsCancelCommand(user_input)
        /\ IF ~ck.exists
           THEN /\ calls' = [calls EXCEPT ![c] =
                       [cl EXCEPT !.st = "returned",
                                  !.result = ErrorResult("Received no input", t)]]
                /\ hist' = [hist EXCEPT !.last[w][t] = "error", !.ncalls = @ + 1]
           ELSE IF ck.next = None
           THEN /\ calls' = [calls EXCEPT ![c] =
                       [cl EXCEPT !.st = "returned", !.values = ck.values,
                                  !.result = ResultOf(ck.values, t)]]
                /\ hist' = [hist EXCEPT !.last[w][t] = ResultOf(ck.values, t).status,
                                         !.ncalls = @ + 1]
           ELSE /\ calls' = [calls EXCEPT ![c] =
                       [cl EXCEPT !.st = "running", !.values = ck.values,
                                  !.node = ResumeNode(w, ck),
                                  !.sp = [resume |-> ck.resume, null |-> user_input,
                                          idx |-> 0]]]
                /\ hist' = [hist EXCEPT !.ncalls = @ + 1]
        /\ memory' = memory

\* resume() called by a caller that is not the leads server
BeginResume(c, w, t, user_input) ==
    /\ BeginResumeCall(c, w, t, user_input)
    /\ UNCHANGED <<inst, scr, db, sessions, conversations>>

\* a step that is a plain def (or an interaction node) runs to its end
SyncStep(c) ==
    LET cl == calls[c] IN
    /\ cl.st = "running"
    /\ cl.node \in Nodes(cl.wf) \ AsyncNodes(cl.wf)
    /\ cl.node # "scrape_instagram"
    /\ \E o \in StepOutcomes(cl.wf, cl.node, cl.values, cl.sp, inst[cl.wf], db) :
           Finish(c, o)
    /\ UNCHANGED <<stop_event, stop_owner, scr, db, sessions, conversations>>

\* an async def step starts: a guarded step whose stop event is set aborts,
\* any other step goes on to its first await ...
StepBegin(c) ==
    LET cl == calls[c] IN
    /\ cl.st = "running"
    /\ cl.node \in AsyncNodes(cl.wf)
    /\ IF cl.node \in GuardedNodes(cl.wf) /\ check_cancellation(stop_event[cl.wf])
       THEN Finish(c, Cancelled(cl.values, inst[cl.wf]))
       ELSE /\ calls' = [calls EXCEPT ![c].st = "in_step"]
            /\ UNCHANGED <<memory, inst, hist>>
    /\ UNCHANGED <<stop_event, stop_owner, scr, db, sessions, conversations>>

\* ... and ends
StepEnd(c) ==
    LET cl == calls[c] IN
    /\ cl.st = "in_step"
    /\ cl.node \in AsyncNodes(cl.wf)
    /\ \E o \in StepOutcomes(cl.wf, cl.node, cl.values, cl.sp, inst[cl.wf], db) :
           Finish(c, o)
    /\ UNCHANGED <<stop_event, stop_owner, scr, db, sessions, conversations>>

\* the caller has its RunResult; the slot is free for the next call
Collect(c) ==
    /\ calls[c].st = "returned"
    /\ calls' = [calls EXCEPT ![c] = IdleCall]
    /\ UNCHANGED <<memory, inst, stop_event, stop_owner, scr, db, sessions, conversations, hist>>

----------------------------------------------------------------------------
(* The sequential driver: one caller that calls run and resume on the      *)
(* messaging and the collaboration workflow, one call at a time, with no   *)
(* stop event (run(user_input, thread_id)).                                 *)

RunInputs(w) == IF w = "collaboration" THEN {"hello", "niche: fitness"} ELSE {"hello"}

\* whose stop event the global of a workflow type holds: the session of the
\* request that created it, and the session of the cancel request that set it
NoOwner == [created_for |-> 0, cancelled_for |-> 0]

NoScraper ==
    [ active |-> FALSE, c |-> 0, users |-> 0, i |-> 0, phase |-> None,
      posts |-> 0, page |-> 0, success |-> TRUE, result |-> FALSE, seen |-> FALSE ]

InitCommon ==
    /\ memory = [w \in Workflows |-> [t \in Threads |-> NoCheckpoint]]
    /\ inst = [w \in Workflows |-> NoInstance]
    /\ stop_event = [w \in Workflows |-> "none"]
    /\ scr = NoScraper
    /\ db = [tracked |-> {}, posts |-> {}]
    /\ sessions = <<>>
    /\ conversations = {}
    /\ hist = [last |-> [w \in Workflows |-> [t \in Threads |-> None]], ncalls |-> 0,
               owner |-> [w \in Workflows |-> 0]]
    /\ stop_owner = [w \in Workflows |-> NoOwner]

Init ==
    /\ InitCommon
    /\ calls = [c \in {1} |-> IdleCall]

DriverRun ==
    \E w \in {"messaging", "collaboration"}, t \in Threads :
        \E user_input \in RunInputs(w) :
            /\ BeginRun(1, w, t, user_input)
            /\ UNCHANGED <<stop_event, stop_owner>>

DriverResume ==
    \E w \in {"messaging", "collaboration"}, t \in Threads, user_input \in RawInputs :
        /\ \/ ResumeCancel(1, w, t, user_input)
           \/ BeginResume(1, w, t, user_input)
        /\ UNCHANGED <<stop_event, stop_owner>>

Next ==
    \/ DriverRun
    \/ DriverResume
    \/ SyncStep(1)
    \/ StepBegin(1)
    \/ StepEnd(1)
    \/ Collect(1)

Spec == Init /\ [][Next]_vars

\* the trend workflow instance (trend_workflow = TrendFindingWorkflow()) and
\* a caller that runs it and answers its interrupts, one call at a time
TrendRun ==
    \E t \in Threads, user_input \in TrendInputs :
        /\ BeginRun(1, "trend", t, user_input)
        /\ UNCHANGED <<stop_event, stop_owner>>

TrendResume ==
    \E t \in Threads, user_input \in TrendAnswers :
        /\ BeginResume(1, "trend", t, user_input)
        /\ UNCHANGED <<stop_event, stop_owner>>

NextTrend ==
    \/ TrendRun
    \/ TrendResume
    \/ SyncStep(1)
    \/ Collect(1)

SpecTrend == Init /\ [][NextTrend]_vars

\* The interaction step process_category_selection applied to the states a
\* graph can hand to an interaction step, with and without categories: a
\* run of the trend workflow that is about to execute the step.
StepStates ==
    { [InitialState("global") EXCEPT !.current_step = "category_analysis",
                                     !.location = "global",
                                     !.trend_data = trend_data,
                                     !.categories = categories]
      : trend_data \in {<<"news">>, <<"tech", "news">>},
        categories \in {<<>>, <<"news">>, <<"news", "tech">>} }

InitStep ==
    /\ inst = [w \in Workflows |-> NoInstance]
    /\ stop_event = [w \in Workflows |-> "none"]
    /\ scr = NoScraper
    /\ db = [tracked |-> {}, posts |-> {}]
    /\ sessions = <<>>
    /\ conversations = {}
    /\ stop_owner = [w \in Workflows |-> NoOwner]
    /\ hist = [last |-> [w \in Workflows |-> [t \in Threads |->
                            IF w = "trend" /\ t = 1 THEN "running" ELSE None]],
               ncalls |-> 1, owner |-> [w \in Workflows |-> 0]]
    /\ \E values \in StepStates :
          /\ memory = [w \in Workflows |-> [t \in Threads |->
                          IF w = "trend" /\ t = 1
                          THEN [exists |-> TRUE, values |-> values,
                                next |-> "process_category_selection",
                                resume |-> <<>>, intr |-> NoIntr]
                          ELSE NoCheckpoint]]
          /\ calls = [c \in {1} |->
                         [IdleCall EXCEPT !.st = "running", !.op = "run", !.wf = "trend",
                                          !.thread = 1, !.input = "global",
                                          !.values = values,
                                          !.node = "process_category_selection"]]

NextStep ==
    \/ TrendResume
    \/ SyncStep(1)
    \/ Collect(1)

SpecStep == InitStep /\ [][NextStep]_vars

\* validate_category_selection applied to the answers a human can type,
\* character by character, and to lists of available categories. The call
\* of the validator is kept in slot 1 of calls.
MaxInputLen == 3

\* the characters an answer is typed from
Alphabet == {"a", "A", "l", "b", ",", " "}

\* the lists of available categories ("a", "B", "al")
CategoryLists ==
    { <<>>, << <<"a">> >>, << <<"a">>, <<"B">> >>, << <<"B">>, <<"a", "l">> >> }

InitSelect ==
    /\ InitCommon
    /\ \E available_categories \in CategoryLists :
          calls = [c \in {1} |->
                      [st |-> "typing", user_input |-> <<>>,
                       context |-> available_categories, result |-> NoVR]]

\* the human types one more character
TypeChar ==
    /\ calls[1].st = "typing"
    /\ Len(calls[1].user_input) < MaxInputLen
    /\ \E ch \in Alphabet : calls' = [calls EXCEPT ![1].user_input = Append(@, ch)]
    /\ UNCHANGED <<memory, inst, stop_event, stop_owner, scr, db, sessions, conversations,
                   hist>>

\* the answer is handed to the validator
ValidateSelection ==
    /\ calls[1].st = "typing"
    /\ calls' = [calls EXCEPT ![1].st = "validated",
                              ![1].result = validate_category_selection(
                                                calls[1].user_input, calls[1].context)]
    /\ UNCHANGED <<memory, inst, stop_event, stop_owner, scr, db, sessions, conversations,
                   hist>>

NextSelect ==
    \/ TypeChar
    \/ ValidateSelection

SpecSelect == InitSelect /\ [][NextSelect]_vars

-----------------------------------------------------------------------------
(* The SQLite file of utils/db_client.py: a table has exists FALSE while   *)
(* it is missing and holds the set of its primary keys otherwise;          *)
(* _db_initialized is the module's flag, FALSE again in every new process. *)
(* The statements are taken to succeed; an INSERT into a missing table     *)
(* raises and is caught.                                                   *)

MaxRows == 2             \* primary keys 1..MaxRows of every table

\* initialize_db_schema(force_reset) with every table dropped
initialize_db_schema_all(d, force_reset) ==
    LET dropped == IF force_reset
                   THEN [t \in DOMAIN d.tables |-> [exists |-> FALSE, rows |-> {}]]
                   ELSE d.tables
    IN  [ tables |-> [t \in DOMAIN d.tables |->
                         IF t \in {"instagram_posts", "scraped_users", "caption_embeddings"}
                            /\ ~dropped[t].exists
                         THEN [exists |-> TRUE, rows |-> {}] ELSE dropped[t]],
          _db_initialized |-> TRUE ]

\* initialize_db_schema: DROP TABLE IF EXISTS of the three tables under
\* force_reset, then CREATE TABLE IF NOT EXISTS of the three
initialize_db_schema(d, force_reset) ==
    LET dropped == IF force_reset
                   THEN [t \in DOMAIN d.tables |->
                            IF t \in {"instagram_posts", "scraped_users", "caption_embeddings"}
                            THEN [exists |-> FALSE, rows |-> {}] ELSE d.tables[t]]
                   ELSE d.tables
    IN  [ tables |-> [t \in DOMAIN d.tables |->
                         IF t \in {"instagram_posts", "scraped_users", "caption_embeddings"}
                            /\ ~dropped[t].exists
                         THEN [exists |-> TRUE, rows |-> {}] ELSE dropped[t]],
          _db_initialized |-> TRUE ]

\* ensure_db_initialized: a missing file has no instagram_posts table, so
\* both of its checks come to the one on the table
ensure_db_initialized(d, force_reset) ==
    IF force_reset
    THEN initialize_db_schema([d EXCEPT !._db_initialized = FALSE], TRUE)
    ELSE IF d._db_initialized THEN d
    ELSE IF ~d.tables["instagram_posts"].exists THEN initialize_db_schema(d, FALSE)
    ELSE [d EXCEPT !._db_initialized = TRUE]

\* initialize_sent_messages_table: CREATE TABLE IF NOT EXISTS sent_messages
initialize_sent_messages_table(d) ==
    IF ~d.tables["sent_messages"].exists
    THEN [d EXCEPT !.tables["sent_messages"] = [exists |-> TRUE, rows |-> {}]]
    ELSE d

\* with get_db_context(): INSERT OR REPLACE INTO table, as save_to_db,
\* update_tracking and record_sent_message do it
insert_or_replace(d, table, key) ==
    LET d1 == ensure_db_initialized(d, FALSE)
    IN  IF ~d1.tables[table].exists
        THEN d1
        ELSE [d1 EXCEPT !.tables[table].rows = @ \cup {key}]

\* calls[1] is the last database call, with the file as it was before it
InitDb ==
    /\ memory = [w \in Workflows |-> [t \in Threads |-> NoCheckpoint]]
    /\ inst = [w \in Workflows |-> NoInstance]
    /\ stop_event = [w \in Workflows |-> "none"]
    /\ scr = NoScraper
    /\ db = [ tables |-> [t \in {"instagram_posts", "scraped_users",
                                 "caption_embeddings", "sent_messages"} |-> [exists |-> FALSE, rows |-> {}]],
              _db_initialized |-> FALSE ]
    /\ sessions = <<>>
    /\ conversations = {}
    /\ hist = [last |-> [w \in Workflows |-> [t \in Threads |-> None]], ncalls |-> 0,
               owner |-> [w \in Workflows |-> 0]]
    /\ stop_owner = [w \in Workflows |-> NoOwner]
    /\ calls = [c \in {1} |-> [op |-> "none", force_reset |-> FALSE, before |-> db]]

\* ensure_db_initialized(force_reset); handle_force_rebuild calls it with
\* force_reset=True
EnsureDbInitialized ==
    /\ \E force_reset \in BOOLEAN :
          /\ db' = ensure_db_initialized(db, force_reset)
          /\ calls' = [calls EXCEPT ![1] = [op |-> "ensure_db_initialized",
                                            force_reset |-> force_reset, before |-> db]]
    /\ UNCHANGED <<memory, inst, stop_event, stop_owner, scr, sessions, conversations, hist>>

InitializeSentMessagesTable ==
    /\ db' = initialize_sent_messages_table(db)
    /\ calls' = [calls EXCEPT ![1] = [op |-> "initialize_sent_messages_table",
                                      force_reset |-> FALSE, before |-> db]]
    /\ UNCHANGED <<memory, inst, stop_event, stop_owner, scr, sessions, conversations, hist>>

\* save_to_db, update_tracking or record_sent_message of one row
InsertOrReplace ==
    /\ \E table \in {"instagram_posts", "scraped_users", "sent_messages"}, key \in 1..MaxRows :
          /\ db' = insert_or_replace(db, table, key)
          /\ calls' = [calls EXCEPT ![1] = [op |-> "insert_or_replace",
                                            force_reset |-> FALSE, before |-> db]]
    /\ UNCHANGED <<memory, inst, stop_event, stop_owner, scr, sessions, conversations, hist>>

\* a new process: the module is loaded again, the file stays
Restart ==
    /\ db' = [db EXCEPT !._db_initialized = FALSE]
    /\ calls' = [calls EXCEPT ![1] = [op |-> "restart", force_reset |-> FALSE,
                                      before |-> db]]
    /\ UNCHANGED <<memory, inst, stop_event, stop_owner, scr, sessions, conversations, hist>>

NextDb ==
    \/ EnsureDbInitialized
    \/ InitializeSentMessagesTable
    \/ InsertOrReplace
    \/ Restart

SpecDb == InitDb /\ [][NextDb]_vars

----------------------------------------------------------------------------
(* The scraping server and the scraper. scrape_instagram awaits            *)
(* InstagramPostsScraper.scrape_and_save_multiple, which polls the stop    *)
(* event before each user, before each page and before the items of a page *)
(* (pages of ten posts); an action is the code from one await to the next. *)

\* scrape_instagram up to the scraper's first poll point
ScrapeBegin(c) ==
    LET cl == calls[c] IN
    /\ cl.st = "running"
    /\ cl.wf = "scraping"
    /\ cl.node = "scrape_instagram"
    /\ db' = handle_force_rebuild(cl.values, db)
    /\ IF cl.values.usernames <= 0
       THEN /\ Finish(c, Ok(scrape_instagram_no_usernames(cl.values), inst[cl.wf]))
            /\ scr' = scr
       ELSE /\ calls' = [calls EXCEPT ![c].st = "in_step"]
            /\ scr' = [NoScraper EXCEPT !.active = TRUE, !.c = c,
                                        !.users = cl.values.usernames,
                                        !.i = 1, !.phase = "user_poll"]
            /\ UNCHANGED <<memory, inst, hist>>
    /\ UNCHANGED <<stop_event, stop_owner, sessions, conversations>>

\* scrape_and_save_multiple: the loop goes to the next username or returns
NextUser(sc) ==
    IF sc.i < sc.users
    THEN [sc EXCEPT !.i = @ + 1, !.phase = "user_poll", !.posts = 0, !.page = 0]
    ELSE [sc EXCEPT !.phase = "returned", !.result = sc.success]

\* check_stop_event
check_stop_event(stop) == stop = "set"

\* scrape_and_save_multiple: the poll before each user, then should_scrape_user
ScrUserPoll ==
    /\ scr.active
    /\ scr.phase = "user_poll"
    /\ scr' = IF check_stop_event(stop_event["scraping"])
              THEN \* CancelledError, caught by scrape_and_save_multiple
                   [scr EXCEPT !.phase = "returned", !.result = FALSE, !.seen = TRUE]
              ELSE IF scr.i \in db.tracked
              THEN NextUser(scr)       \* scraped recently: no user id, no posts
              ELSE [scr EXCEPT !.phase = "user_id"]
    /\ UNCHANGED <<memory, calls, inst, stop_event, stop_owner, db, sessions, conversations, hist>>

\* get_user_id_from_username: the profile request answers
ScrUserId ==
    /\ scr.active
    /\ scr.phase = "user_id"
    /\ \E found \in BOOLEAN :
          scr' = IF found
                 THEN [scr EXCEPT !.phase = "page_poll", !.page = 1, !.posts = 0]
                 ELSE NextUser(scr)
    /\ UNCHANGED <<memory, calls, inst, stop_event, stop_owner, db, sessions, conversations, hist>>

\* scrape_user_posts: the poll at the top of the page loop
ScrPagePoll ==
    /\ scr.active
    /\ scr.phase = "page_poll"
    /\ scr' = IF check_stop_event(stop_event["scraping"])
              THEN \* CancelledError, caught by scrape_user_posts: return all_posts
                   [scr EXCEPT !.phase = "save", !.seen = TRUE]
              ELSE [scr EXCEPT !.phase = "fetching"]
    /\ UNCHANGED <<memory, calls, inst, stop_event, stop_owner, db, sessions, conversations, hist>>

\* scrape_user_posts: the page request answers
ScrPageFetched ==
    /\ scr.active
    /\ scr.phase = "fetching"
    /\ \E answer \in {"failed", "more_available", "last_page"} :
          scr' = IF answer = "failed"
                 THEN [scr EXCEPT !.phase = "save"]
                 ELSE IF check_stop_event(stop_event["scraping"])
                 THEN [scr EXCEPT !.phase = "save", !.seen = TRUE]
                 ELSE IF answer = "more_available" /\ scr.page < MaxPages
                 THEN [scr EXCEPT !.posts = @ + 1, !.page = @ + 1,
                                  !.phase = "page_poll"]
                 ELSE [scr EXCEPT !.posts = @ + 1, !.phase = "save"]
    /\ UNCHANGED <<memory, calls, inst, stop_event, stop_owner, db, sessions, conversations, hist>>

\* scrape_and_save_multiple: save_to_db and update_tracking for the posts of
\* the user, however many scrape_user_posts returned
ScrSave ==
    /\ scr.active
    /\ scr.phase = "save"
    /\ IF scr.posts = 0
       THEN /\ scr' = NextUser(scr)
            /\ db' = db
       ELSE \E saved \in BOOLEAN :
              IF saved
              THEN /\ db' = [tracked |-> db.tracked \cup {scr.i},
                             posts |-> db.posts \cup {scr.i}]
                   /\ scr' = NextUser(scr)
              ELSE /\ db' = db
                   /\ scr' = NextUser([scr EXCEPT !.success = FALSE])
    /\ UNCHANGED <<memory, calls, inst, stop_event, stop_owner, sessions, conversations, hist>>

\* scrape_instagram after the scraper returned
ScrapeEnd(c) ==
    LET cl == calls[c] IN
    /\ scr.active
    /\ scr.c = c
    /\ scr.phase = "returned"
    /\ Finish(c, Ok(scrape_instagram_result(cl.values, scr.result), inst[cl.wf]))
    /\ scr' = NoScraper
    /\ UNCHANGED <<stop_event, stop_owner, db, sessions, conversations>>

\* POST /run_workflow: a new stop event, a new workflow and a new thread id
run_scraping_workflow(c) ==
    \E t \in Threads, user_input \in ScrapeInputs :
        /\ ~memory["scraping"][t].exists
        /\ BeginRun(c, "scraping", t, user_input)
        /\ stop_event' = [stop_event EXCEPT !["scraping"] = "clear"]
        /\ stop_owner' = [stop_owner EXCEPT !["scraping"] =
                              [created_for |-> t, cancelled_for |-> 0]]

\* POST /cancel_operation
cancel_operation(w) ==
    /\ stop_event[w] # "none"
    /\ stop_event' = [stop_event EXCEPT ![w] = "set"]
    /\ UNCHANGED <<memory, calls, inst, scr, db, sessions, conversations, stop_owner, hist>>

NextScrape ==
    \/ run_scraping_workflow(1)
    \/ cancel_operation("scraping")
    \/ SyncStep(1)
    \/ ScrapeBegin(1)
    \/ ScrUserPoll
    \/ ScrUserId
    \/ ScrPagePoll
    \/ ScrPageFetched
    \/ ScrSave
    \/ ScrapeEnd(1)
    \/ StepBegin(1)
    \/ StepEnd(1)
    \/ Collect(1)

SpecScrape == Init /\ [][NextScrape]_vars

----------------------------------------------------------------------------
(* InstagramPostsScraper.scrape_user_posts post by post. A call is made    *)
(* with a max_limit; each page response carries some number of items and   *)
(* says whether more are available. The coroutine yields at its requests   *)
(* and at the delay between pages, where /cancel_operation may set the     *)
(* stop event; the loop over the items of a page runs without yielding.    *)

\* the largest max_limit and the largest page of the calls examined
MaxLimit == 12
MaxPageSize == 12

\* if posts_scraped % 10 == 0: the loop over the items polls every 10 posts
PollEvery == 10

\* the frame of a call of scrape_user_posts; after_posts and after_requests
\* count what the call extracted and requested since the stop event was set
NoFrame ==
    [ active |-> TRUE, phase |-> "user_id", max_limit |-> 0, posts_scraped |-> 0,
      page |-> 1, cancelled |-> FALSE, after_posts |-> 0, after_requests |-> 0 ]

\* a loop over the items that does not stop at max_limit
RECURSIVE extract_items_unlimited(_, _, _, _)
extract_items_unlimited(posts_scraped, items, max_limit, stop) ==
    IF items = 0
    THEN [posts_scraped |-> posts_scraped, cancelled |-> FALSE]
    ELSE IF posts_scraped % PollEvery = 0 /\ check_stop_event(stop)
    THEN [posts_scraped |-> posts_scraped, cancelled |-> TRUE]
    ELSE extract_items_unlimited(posts_scraped + 1, items - 1, max_limit, stop)

\* a loop over the items that does not poll the stop event
RECURSIVE extract_items_unpolled(_, _, _, _)
extract_items_unpolled(posts_scraped, items, max_limit, stop) ==
    IF items = 0
    THEN [posts_scraped |-> posts_scraped, cancelled |-> FALSE]
    ELSE IF posts_scraped >= max_limit
    THEN [posts_scraped |-> posts_scraped, cancelled |-> FALSE]
    ELSE extract_items_unpolled(posts_scraped + 1, items - 1, max_limit, stop)

\* scrape_user_posts, for item in items: poll when posts_scraped is a
\* multiple of ten, stop at max_limit, else extract the post
RECURSIVE extract_items(_, _, _, _)
extract_items(posts_scraped, items, max_limit, stop) ==
    IF items = 0
    THEN [posts_scraped |-> posts_scraped, cancelled |-> FALSE]
    ELSE IF posts_scraped % PollEvery = 0 /\ check_stop_event(stop)
    THEN [posts_scraped |-> posts_scraped, cancelled |-> TRUE]
    ELSE IF posts_scraped >= max_limit
    THEN [posts_scraped |-> posts_scraped, cancelled |-> FALSE]
    ELSE extract_items(posts_scraped + 1, items - 1, max_limit, stop)

\* while posts_scraped < max_limit: poll, then send the page request
PostsLoopHead(sc, stop) ==
    IF sc.posts_scraped >= sc.max_limit
    THEN [sc EXCEPT !.phase = "returned"]
    ELSE IF check_stop_event(stop)
    THEN [sc EXCEPT !.phase = "returned", !.cancelled = TRUE]
    ELSE [sc EXCEPT !.phase = "fetching",
                    !.after_requests = IF stop = "set" THEN @ + 1 ELSE @]

\* get_user_id_from_username answers: no user id, or the loop begins
PostsUserId ==
    /\ scr.active
    /\ scr.phase = "user_id"
    /\ \E found \in BOOLEAN :
          scr' = IF found
                 THEN PostsLoopHead(scr, stop_event["scraping"])
                 ELSE [scr EXCEPT !.phase = "returned"]
    /\ UNCHANGED <<memory, calls, inst, stop_event, stop_owner, db, sessions, conversations, hist>>

\* the page request answers: an error status or an exception, or a page of
\* items; the items are extracted and the pagination is examined
PostsPageFetched ==
    /\ scr.active
    /\ scr.phase = "fetching"
    /\ \E failed \in BOOLEAN, items \in 0..MaxPageSize, more_available \in BOOLEAN :
          LET stop == stop_event["scraping"]
              r == extract_items(scr.posts_scraped, items, scr.max_limit, stop)
              sc == [scr EXCEPT !.posts_scraped = r.posts_scraped,
                                !.after_posts = IF stop = "set"
                                                THEN @ + (r.posts_scraped - scr.posts_scraped)
                                                ELSE @]
          IN  scr' = IF failed \/ items = 0
                     THEN [scr EXCEPT !.phase = "returned"]
                     ELSE IF r.cancelled
                     THEN [sc EXCEPT !.phase = "returned", !.cancelled = TRUE]
                     ELSE IF ~more_available
                     THEN [sc EXCEPT !.phase = "returned"]
                     ELSE [sc EXCEPT !.page = @ + 1, !.phase = "delay"]
    /\ UNCHANGED <<memory, calls, inst, stop_event, stop_owner, db, sessions, conversations, hist>>

\* add_random_delay is over: the next turn of the while loop
PostsDelayOver ==
    /\ scr.active
    /\ scr.phase = "delay"
    /\ scr' = PostsLoopHead(scr, stop_event["scraping"])
    /\ UNCHANGED <<memory, calls, inst, stop_event, stop_owner, db, sessions, conversations, hist>>

\* POST /cancel_operation while the call waits
PostsCancel ==
    /\ scr.phase \in {"user_id", "fetching", "delay"}
    /\ cancel_operation("scraping")

NextPosts ==
    \/ PostsUserId
    \/ PostsPageFetched
    \/ PostsDelayOver
    \/ PostsCancel

SpecPosts ==
    /\ memory = [w \in Workflows |-> [t \in Threads |-> NoCheckpoint]]
    /\ calls = [c \in {1} |-> IdleCall]
    /\ inst = [w \in Workflows |-> NoInstance]
    /\ stop_event = [w \in Workflows |-> IF w = "scraping" THEN "clear" ELSE "none"]
    /\ stop_owner = [w \in Workflows |-> NoOwner]
    /\ db = [tracked |-> {}, posts |-> {}]
    /\ sessions = <<>>
    /\ conversations = {}
    /\ hist = [last |-> [w \in Workflows |-> [t \in Threads |-> None]], ncalls |-> 0,
               owner |-> [w \in Workflows |-> 0]]
    /\ \E max_limit \in 0..MaxLimit : scr = [NoFrame EXCEPT !.max_limit = max_limit]
    /\ [][NextPosts]_vars

----------------------------------------------------------------------------
(* The leads server: /create_session, /delete_session, /generate and       *)
(* /cancel_operation. Requests are coroutines of one event loop: a request *)
(* runs until it awaits, and up to MaxRequests of them are in flight. The  *)
(* two workflows are the server's app.messaging_workflow and               *)
(* app.collaboration_workflow; a session id is the thread id.              *)

\* the last user message of a /generate request for workflow w and a
\* session: for a thread with a pending step an answer that confirms, one
\* the validators reject, or the cancel command; for any other thread an
\* input of run
ServerMessages(w, session_id) ==
    IF memory[w][session_id].next = None THEN RunInputs(w)
    ELSE IF w = "messaging" THEN {"yes", "maybe", "cancel"}
    ELSE {"yes", "cancel"}

InitServer ==
    /\ InitCommon
    /\ calls = [c \in 1..MaxRequests |-> IdleCall]

\* the record create_session stores for a session. Of the keys of a session
\* record the model keeps cancelled_operation (cancelled_at is set and
\* cleared with it); the timestamps and the user id are left out.
NewSession == [cancelled_operation |-> None]

\* the operation types a /cancel_operation request names; "search" is one
\* the server has no stop event for
OperationTypes == {"message", "collaboration", "search"}

\* the workflow whose stop event an operation type names
WorkflowOf(operation_type) ==
    IF operation_type = "message" THEN "messaging" ELSE operation_type

\* LeadsSessionManager.update_session_info: nothing for an unknown session
update_session_info(ss, session_id, info) ==
    IF session_id \in DOMAIN ss
    THEN [ss EXCEPT ![session_id] =
             [k \in DOMAIN @ |-> IF k \in DOMAIN info THEN info[k] ELSE @[k]]]
    ELSE ss

\* GET /create_session: str(uuid4()) gives an id that is not in use; ids
\* are opaque, the model takes the lowest free one
create_session ==
    /\ \E session_id \in Threads \ DOMAIN sessions :
          /\ \A s \in Threads \ DOMAIN sessions : session_id <= s
          /\ sessions' = [s \in DOMAIN sessions \cup {session_id} |->
                             IF s = session_id THEN NewSession ELSE sessions[s]]
          /\ conversations' = conversations \cup {session_id}
    /\ UNCHANGED <<memory, calls, inst, stop_event, stop_owner, scr, db, hist>>

\* DELETE /delete_session (delete_conversation pops both dicts); an unknown
\* session is answered with 404
delete_session ==
    /\ \E session_id \in DOMAIN sessions :
          /\ sessions' = [s \in DOMAIN sessions \ {session_id} |-> sessions[s]]
          /\ conversations' = conversations \ {session_id}
    /\ UNCHANGED <<memory, calls, inst, stop_event, stop_owner, scr, db, hist>>

\* POST /generate up to the await of the run or resume task, for a request
\* with workflow_type w, a session id and a last user message
generate_request(c, w, session_id, last_user_message) ==
        /\ hist.ncalls < MaxGenerate
        /\ \A c2 \in 1..(c - 1) : calls[c2].st # "idle"   \* the first free slot
        /\ stop_event' = [stop_event EXCEPT ![w] = "clear"]
        /\ stop_owner' = [stop_owner EXCEPT ![w] =
                              [created_for |-> session_id, cancelled_for |-> 0]]
        /\ IF session_id \notin DOMAIN sessions
           THEN \* the fallback response, workflow_status "error"
                /\ calls[c].st = "idle"
                /\ hist.ncalls < MaxCalls
                /\ calls' = [calls EXCEPT ![c] =
                       [IdleCall EXCEPT !.st = "returned", !.op = "none", !.wf = w,
                                        !.thread = session_id,
                                        !.input = last_user_message,
                                        !.result = ErrorResult("No session", session_id)]]
                /\ hist' = [hist EXCEPT !.ncalls = @ + 1]
                /\ UNCHANGED <<memory, inst, scr, db, sessions, conversations>>
           ELSE \* a cancellation flag of the session is cleared
                /\ sessions' = update_session_info(sessions, session_id,
                                                   [cancelled_operation |-> None])
                /\ IF memory[w][session_id].next # None
                   THEN \* snapshot.next: the workflow is interrupted
                        \/ ResumeCancelCall(c, w, session_id, last_user_message)
                        \/ BeginResumeCall(c, w, session_id, last_user_message)
                   ELSE BeginRunCall(c, w, session_id, last_user_message)
                /\ UNCHANGED <<inst, scr, db, conversations>>

generate_workflow_response(c) ==
    \E w \in {"messaging", "collaboration"}, session_id \in Threads :
        \E last_user_message \in ServerMessages(w, session_id) :
            generate_request(c, w, session_id, last_user_message)

\* POST /generate from the task's result to the response: save_conversation
\* (the fallback response for an unknown session saves nothing)
generate_workflow_response_end(c) ==
    LET session_id == calls[c].thread IN
    /\ calls[c].st = "returned"
    /\ calls' = [calls EXCEPT ![c] = IdleCall]
    /\ IF calls[c].op = "none"
       THEN UNCHANGED <<sessions, conversations>>
       ELSE /\ conversations' = conversations \cup {session_id}
            /\ sessions' = update_session_info(sessions, session_id, <<>>)
    /\ UNCHANGED <<memory, inst, stop_event, stop_owner, scr, db, hist>>

\* the response of POST /cancel_operation to a request in the current state
CancelResponse(session_id, operation_type) ==
    IF session_id \notin DOMAIN sessions THEN 404
    ELSE IF /\ operation_type \in {"message", "collaboration"}
            /\ stop_event[WorkflowOf(operation_type)] # "none"
    THEN 200
    ELSE 404

\* POST /cancel_operation of the leads server, for a session and an
\* operation type: the global stop event of that type is set
leads_cancel_operation(session_id, operation_type) ==
    /\ IF session_id \notin DOMAIN sessions
       THEN UNCHANGED <<sessions, stop_event, stop_owner>>
       ELSE /\ sessions' = update_session_info(sessions, session_id,
                               [cancelled_operation |-> operation_type])
            /\ IF CancelResponse(session_id, operation_type) = 200
               THEN /\ stop_event' = [stop_event EXCEPT
                                         ![WorkflowOf(operation_type)] = "set"]
                    /\ stop_owner' = [stop_owner EXCEPT
                                         ![WorkflowOf(operation_type)].cancelled_for =
                                             session_id]
               ELSE UNCHANGED <<stop_event, stop_owner>>
    /\ UNCHANGED <<memory, calls, inst, scr, db, conversations, hist>>

\* a request of workflow w is in flight
InFlight(w) == \E c \in DOMAIN calls : calls[c].wf = w /\ calls[c].st \in {"running", "in_step"}

NextServer ==
    \/ create_session
    \/ delete_session
    \/ \E session_id \in DOMAIN sessions, operation_type \in {"message", "collaboration"} :
          /\ InFlight(WorkflowOf(operation_type))
          /\ leads_cancel_operation(session_id, operation_type)
    \/ \E c \in 1..MaxRequests :
          \/ generate_workflow_response(c)
          \/ SyncStep(c)
          \/ StepBegin(c)
          \/ StepEnd(c)
          \/ generate_workflow_response_end(c)

SpecServer == InitServer /\ [][NextServer]_vars

\* The leads server with collaboration requests only, and cancel requests of
\* every kind at any time
NextSessions ==
    \/ create_session
    \/ delete_session
    \/ \E session_id \in Threads, operation_type \in OperationTypes :
          leads_cancel_operation(session_id, operation_type)
    \/ \E c \in 1..MaxRequests :
          \/ \E session_id \in Threads :
                generate_request(c, "collaboration", session_id, "niche: fitness")
          \/ SyncStep(c)
          \/ StepBegin(c)
          \/ StepEnd(c)
          \/ generate_workflow_response_end(c)

SpecSessions == InitServer /\ [][NextSessions]_vars

----------------------------------------------------------------------------
(* Properties *)

Awaiting == "awaiting_human_input"

\* call c is a resume that has returned, on a thread that was suspended at
\* an interaction node when the call began
SuspendedResume(c) ==
    /\ calls[c].st = "returned"
    /\ calls[c].op = "resume"
    /\ calls[c].pre.exists
    /\ calls[c].pre.next \in InteractionNodes(calls[c].wf)
    /\ calls[c].prelast = Awaiting

\* what the validator of the suspended step says of the input of call c
VerdictOf(c) ==
    validation_fn(calls[c].pre.next, calls[c].input, calls[c].pre.values.user_input)

\* C1: a resume on a suspended thread with an input that the suspended
\* step's validator rejects returns awaiting input whose data has error = true
\* and previous_input = that raw input, and leaves the suspended step and
\* current_step as they were.
C1_RejectedInputResuspends ==
    \A c \in DOMAIN calls :
        ( SuspendedResume(c) /\ ~IsCancelCommand(calls[c].input) /\ ~VerdictOf(c).valid )
        => /\ calls[c].result.status = Awaiting
           /\ calls[c].result.data.error
           /\ calls[c].result.data.previous_input = calls[c].input
           /\ memory[calls[c].wf][calls[c].thread].next = calls[c].pre.next
           /\ memory[calls[c].wf][calls[c].thread].values.current_step
                  = calls[c].pre.values.current_step

\* C2: after an invalid answer has re-suspended the thread, a later resume
\* runs the validator on its new raw input: an accepted input has the merge
\* applied and the graph goes on (the step returns a state), a rejected one
\* yields awaiting input again and never status error.
C2_ResumeAfterRejectionValidatesNewInput ==
    \A c \in DOMAIN calls :
        ( SuspendedResume(c) /\ ~IsCancelCommand(calls[c].input)
          /\ calls[c].pre.resume # <<>> )
        => IF VerdictOf(c).valid
           THEN calls[c].oks >= 1
           ELSE calls[c].result.status = Awaiting

\* C3: for every workflow and suspended step, a resume with the input
\* "cancel" (in any letter case, as the code lowers it) returns status
\* cancelled and invokes no step and no validator.
C3_CancelCommandInvokesNothing ==
    \A c \in DOMAIN calls :
        ( calls[c].st = "returned" /\ calls[c].op = "resume"
          /\ Lower(calls[c].input) = "cancel" )
        => /\ calls[c].result.status = "cancelled"
           /\ calls[c].ran = <<>>
           /\ calls[c].vcalls = 0

\* "cancel" has been answered to a thread suspended at message_confirmation,
\* whose validator would have read it as the action cancel
C3_Witness ==
    \E c \in DOMAIN calls :
        /\ SuspendedResume(c)
        /\ calls[c].pre.next = "message_confirmation"
        /\ calls[c].input = "cancel"
        /\ VerdictOf(c).action = "cancel"
        /\ calls[c].result.status = "cancelled"

\* C4: when a step raises an exception that is no suspension, the call
\* executes no further step and retries none, and returns a RunResult with
\* status error that carries the exception's message.
C4_StepExceptionEndsInError ==
    \A c \in DOMAIN calls :
        calls[c].raisedAt # 0
        => /\ calls[c].st = "returned"
           /\ calls[c].result.status = "error"
           /\ calls[c].result.error_message = calls[c].err
           /\ Len(calls[c].ran) = calls[c].raisedAt

\* the collaboration workflow's extract_parameters has raised "Niche is required"
C4_Witness ==
    \E c \in DOMAIN calls :
        /\ calls[c].wf = "collaboration"
        /\ calls[c].ran = <<"extract_parameters">>
        /\ calls[c].raisedAt = 1
        /\ calls[c].result.error_message = "Niche is required"

\* C5: a run whose long-running step saw the stop event set at a poll point
\* returns a RunResult with status cancelled.
C5_ObservedCancellationIsCancelled ==
    \A c \in DOMAIN calls :
        ( calls[c].st = "returned" /\ calls[c].cancel_seen )
        => calls[c].result.status = "cancelled"

\* C6: a resume whose answer the validator accepts as a negative one
\* (valid, not confirmed) and whose merge sets the status to cancelled
\* returns status cancelled.
C6_NegativeAnswerIsCancelled ==
    \A c \in DOMAIN calls :
        ( /\ SuspendedResume(c)
          /\ calls[c].pre.next = "login_confirmation"
          /\ calls[c].pre.resume = <<>>
          /\ VerdictOf(c).valid
          /\ ~VerdictOf(c).confirmed
          /\ state_update_fn("login_confirmation", calls[c].pre.values,
                             VerdictOf(c)).workflow_status = "cancelled" )
        => calls[c].result.status = "cancelled"

\* C7: once a step of a run has left the status error or cancelled, the run
\* executes no further step, and its RunResult reports that status.
C7_NoStepAfterTerminalStatus ==
    \A c \in DOMAIN calls :
        \A i \in 1..Len(calls[c].statuses) :
            calls[c].statuses[i] \in {"error", "cancelled"}
            => /\ Len(calls[c].ran) = i
               /\ calls[c].st = "returned" => calls[c].result.status = calls[c].statuses[i]

\* C8: a resume on a thread that has no checkpoint, or whose last run ended
\* completed, error or cancelled, fails (the only failure a RunResult can
\* tell is status error), invokes no step and leaves the checkpoint as it was.
C8_ResumeOfUnknownOrEndedThreadFails ==
    \A c \in DOMAIN calls :
        ( /\ calls[c].st = "returned"
          /\ calls[c].op = "resume"
          /\ \/ ~calls[c].pre.exists
             \/ calls[c].prelast \in {"completed", "error", "cancelled"} )
        => /\ calls[c].result.status = "error"
           /\ calls[c].ran = <<>>
           /\ memory[calls[c].wf][calls[c].thread] = calls[c].pre

\* C9: after resume("cancel") returned cancelled for a thread, the thread is
\* not suspended any more (its checkpoint has no next step), and a later
\* resume on it invokes no step.
C9_CancelledThreadIsTerminal ==
    /\ \A w \in Workflows, t \in Threads :
          hist.last[w][t] = "cancelled" => memory[w][t].next = None
    /\ \A c \in DOMAIN calls :
          ( calls[c].op = "resume" /\ calls[c].prelast = "cancelled" )
          => calls[c].ran = <<>>

\* C10: no two requests execute a step of the same thread of the same
\* workflow at the same time.
C10_OneStepPerThread ==
    \A c1, c2 \in DOMAIN calls :
        ( /\ c1 # c2
          /\ calls[c1].wf = calls[c2].wf
          /\ calls[c1].thread = calls[c2].thread
          /\ calls[c1].st = "in_step" )
        => calls[c2].st # "in_step"

\* C11: threads share nothing but the checkpoint store. The instance
\* attributes a suspended thread relies on were last assigned by that thread;
\* a run in flight whose stop event is set is the run of the session the
\* cancellation was requested for; and the stop event of the workflow is the
\* one created for every run of it that is in flight.
C11_ThreadsShareNoState ==
    /\ \A w \in Workflows, t \in Threads :
          ( memory[w][t].next \in InteractionNodes(w) /\ hist.last[w][t] = Awaiting )
          => hist.owner[w] = t
    /\ \A c \in DOMAIN calls :
          calls[c].st \in {"running", "in_step"}
          => /\ stop_owner[calls[c].wf].created_for = calls[c].thread
             /\ stop_event[calls[c].wf] = "set"
                   => stop_owner[calls[c].wf].cancelled_for = calls[c].thread

\* C12: a resume of a suspended thread executes first the step that
\* suspended, from its beginning and on the state saved at the suspension
\* (an interrupt it raises again is built from that state); no step that
\* completed before the suspension is executed in its place.
C12_ResumeReentersSuspendedStep ==
    \A c \in DOMAIN calls :
        ( /\ calls[c].op = "resume"
          /\ calls[c].pre.exists
          /\ calls[c].pre.next \in InteractionNodes(calls[c].wf)
          /\ calls[c].prelast = Awaiting
          /\ calls[c].ran # <<>> )
        => /\ calls[c].ran[1] = calls[c].pre.next
           /\ ( Len(calls[c].ran) = 1 /\ calls[c].result.status = Awaiting )
              => /\ calls[c].result.data.type = calls[c].pre.next
                 /\ calls[c].result.data.screenshot = calls[c].pre.values.screenshot_path
                 /\ memory[calls[c].wf][calls[c].thread].values = calls[c].pre.values

\* a resume entered login_confirmation, which the run before it had reached
\* after three steps, and went on to process_profiles
C12_Witness ==
    \E c \in DOMAIN calls :
        /\ calls[c].op = "resume"
        /\ calls[c].prelast = Awaiting
        /\ calls[c].pre.next = "login_confirmation"
        /\ calls[c].pre.values.current_step = "automation_initialization"
        /\ Len(calls[c].ran) >= 2
        /\ calls[c].ran[1] = "login_confirmation"
        /\ calls[c].ran[2] = "process_profiles"

\* C13: when a step suspends, run/resume return the awaiting result with the
\* thread id and the interrupt's message and data; the data has the type,
\* instructions and options of the step's InterruptConfig, merged with the
\* step's own fields (screenshot; profile_url and message_text at
\* message_confirmation) taken from the state at the suspension.
C13_AwaitingResultCarriesInterrupt ==
    \A c \in DOMAIN calls :
        ( calls[c].st = "returned" /\ calls[c].result.status = Awaiting )
        => LET cl == calls[c]
               node == cl.ran[Len(cl.ran)]
               config == MsgInterruptConfigs[node]
               state == memory[cl.wf][cl.thread].values
               data == cl.result.data
           IN  /\ node \in InteractionNodes(cl.wf)
               /\ memory[cl.wf][cl.thread].next = node
               /\ cl.result.thread_id = cl.thread
               /\ cl.result.message =
                     IF data.error THEN data.error_message ELSE config.message
               /\ data.type = config.interrupt_type
               /\ data.instructions = config.instructions
               /\ data.options = config.options
               /\ data.screenshot = state.screenshot_path
               /\ node = "message_confirmation"
                     => /\ data.profile_url = state.current_profile_url
                        /\ data.message_text = state.message_text

\* a run or resume returned the suspension of message_confirmation with the
\* profile and the prepared message in its data
C13_Witness ==
    \E c \in DOMAIN calls :
        /\ calls[c].st = "returned"
        /\ calls[c].result.status = Awaiting
        /\ calls[c].result.data.type = "message_confirmation"
        /\ calls[c].result.data.message_text # None
        /\ calls[c].result.data.profile_url # 0
        /\ calls[c].result.thread_id = calls[c].thread

\* C14: after a run or resume has returned, the thread's checkpoint holds the
\* state produced by the last step the call executed, and it names a
\* suspended step exactly when the returned status is the awaiting one.
C14_CheckpointMatchesResult ==
    \A c \in DOMAIN calls :
        calls[c].st = "returned"
        => LET cl == calls[c]
               ck == memory[cl.wf][cl.thread]
           IN  /\ ( ck.next \in InteractionNodes(cl.wf) ) <=> ( cl.result.status = Awaiting )
               /\ ( cl.ran # <<>> /\ cl.oks > 0 ) => ck.values = cl.values

\* C15: at every point the status held in a thread's state, once a step has
\* set it, is one of running, awaiting, completed, error and cancelled, and
\* the status of every RunResult is one of completed, awaiting, error and
\* cancelled.
C15_StatusesAreOfTheFixedSet ==
    /\ \A w \in Workflows, t \in Threads :
          memory[w][t].values.workflow_status
              \in {None, "running", Awaiting, "completed", "error", "cancelled"}
    /\ \A c \in DOMAIN calls :
          /\ calls[c].values.workflow_status
                 \in {None, "running", Awaiting, "completed", "error", "cancelled"}
          /\ ( calls[c].st = "returned" /\ calls[c].result # Propagated(calls[c].thread) )
             => calls[c].result.status \in {"completed", Awaiting, "error", "cancelled"}

\* C16: the current_step of a thread's state, once a step has set it, always
\* names a step of the workflow's graph definition.
C16_CurrentStepIsAGraphStep ==
    /\ \A w \in Workflows, t \in Threads :
          memory[w][t].values.current_step \in Nodes(w) \cup {None}
    /\ \A c \in DOMAIN calls :
          calls[c].st # "idle"
          => calls[c].values.current_step \in Nodes(calls[c].wf) \cup {None}

\* C17: every run() starts from a State created anew: the state the first
\* step of the run observes holds the run's input and nothing an earlier run
\* wrote, also when the earlier run used the same thread id.
C17_RunStartsFromAFreshState ==
    \A c \in DOMAIN calls :
        ( /\ calls[c].op = "run"
          /\ calls[c].st \in {"running", "in_step"}
          /\ calls[c].ran = <<>> )
        => calls[c].values = InitialState(calls[c].input)

\* C18: the options of message_confirmation are advisory: an answer that is
\* no send, skip or cancel keyword is taken as an edited message;
\* message_text becomes that answer and the workflow suspends again at
\* message_confirmation without sending anything.
C18_OtherAnswerIsAnEditedMessage ==
    \A c \in DOMAIN calls :
        ( /\ calls[c].st = "returned"
          /\ calls[c].op = "resume"
          /\ calls[c].pre.next = "message_confirmation"
          /\ calls[c].prelast = Awaiting
          /\ ~IsCancelCommand(calls[c].input)
          /\ Lower(calls[c].input) \notin
                 { "yes", "y", "send", "send message",
                   "no", "n", "skip", "skip this profile",
                   "cancel", "end", "quit", "exit" } )
        => /\ calls[c].ran = <<"message_confirmation", "message_confirmation">>
           /\ calls[c].result.status = Awaiting
           /\ calls[c].result.data.type = "message_confirmation"
           /\ calls[c].result.data.message_text = calls[c].input
           /\ memory[calls[c].wf][calls[c].thread].next = "message_confirmation"
           /\ memory[calls[c].wf][calls[c].thread].values.message_text = calls[c].input
           /\ memory[calls[c].wf][calls[c].thread].values.successful
                  = calls[c].pre.values.successful

\* the answer "maybe" to message_confirmation came back as a new suspension
\* that shows "maybe" as the message
C18_Witness ==
    \E c \in DOMAIN calls :
        /\ calls[c].st = "returned"
        /\ calls[c].op = "resume"
        /\ calls[c].pre.next = "message_confirmation"
        /\ calls[c].input = "maybe"
        /\ calls[c].result.status = Awaiting
        /\ calls[c].result.data.message_text = "maybe"

\* C19: the data of the suspension that answers a rejected input equals the
\* data of the suspension it answers in every field but error, error_message
\* and previous_input, and the rejection leaves the thread's State as it was.
C19_RejectionChangesThreeFieldsOnly ==
    \A c \in DOMAIN calls :
        ( /\ calls[c].st = "returned"
          /\ calls[c].op = "resume"
          /\ calls[c].pre.next \in InteractionNodes(calls[c].wf)
          /\ calls[c].prelast = Awaiting
          /\ calls[c].result.status = Awaiting
          /\ calls[c].result.data.error )
        => /\ [calls[c].result.data EXCEPT !.error = FALSE, !.error_message = None,
                                           !.previous_input = None]
                 = [calls[c].pre.intr.data EXCEPT !.error = FALSE, !.error_message = None,
                                                  !.previous_input = None]
           /\ calls[c].result.data.previous_input = calls[c].input
           /\ memory[calls[c].wf][calls[c].thread].values = calls[c].pre.values
           /\ memory[calls[c].wf][calls[c].thread].next = calls[c].pre.next

\* "maybe" was rejected at login_confirmation, whose first suspension showed
\* the login screenshot
C19_Witness ==
    \E c \in DOMAIN calls :
        /\ calls[c].st = "returned"
        /\ calls[c].op = "resume"
        /\ calls[c].pre.intr.data.type = "login_confirmation"
        /\ calls[c].pre.intr.data.screenshot # None
        /\ ~calls[c].pre.intr.data.error
        /\ calls[c].result.status = Awaiting
        /\ calls[c].result.data.error
        /\ calls[c].result.data.previous_input = "maybe"

C24_CancelKeywordEndsCancelled ==
    \A c \in DOMAIN calls :
        ( /\ calls[c].st = "returned"
          /\ calls[c].op = "resume"
          /\ calls[c].wf = "messaging"
          /\ calls[c].pre.next = "message_confirmation"
          /\ calls[c].prelast = Awaiting
          /\ Lower(calls[c].input) \in {"cancel", "end", "quit", "exit"} )
        => /\ calls[c].result.status = "cancelled"
           /\ calls[c].ran # <<>>
              => calls[c].ran = <<"message_confirmation", "cancel_workflow",
                                  "finalize_automation">>

\* C25: in the messaging workflow send_message never executes for a profile
\* for which prepare_message failed to open the dialog and type the message.
C25_NoSendAfterFailedPrepare ==
    \A c \in DOMAIN calls :
        ( /\ calls[c].wf = "messaging"
          /\ calls[c].st = "in_step"
          /\ calls[c].node = "send_message" )
        => calls[c].values.error_message # "Failed to prepare and type message"

\* C26: in the messaging workflow send_message runs for a profile only when
\* the most recent answer at message_confirmation for that profile was a send
\* command: it runs third in a resume whose answer is a send keyword, after
\* message_confirmation and prepare_message, on the profile the suspension
\* showed; a skip, cancel or edit answer is never followed by it.
C26_SendOnlyAfterSendAnswer ==
    \A c \in DOMAIN calls :
        LET cl == calls[c]
            sending == cl.st = "in_step" /\ cl.node = "send_message"
            steps == IF sending THEN Append(cl.ran, cl.node) ELSE cl.ran
        IN  ( cl.wf = "messaging" /\ cl.st # "idle" )
            => \A i \in 1..Len(steps) :
                   steps[i] = "send_message"
                   => /\ i = 3
                      /\ cl.op = "resume"
                      /\ steps[1] = "message_confirmation"
                      /\ steps[2] = "prepare_message"
                      /\ cl.pre.next = "message_confirmation"
                      /\ Lower(cl.input) \in {"yes", "y", "send", "send message"}
                      /\ sending => cl.values.current_profile_url
                                       = cl.pre.values.current_profile_url

\* send_message is executing in a resume that answered "yes" at
\* message_confirmation
C26_Witness ==
    \E c \in DOMAIN calls :
        /\ calls[c].wf = "messaging"
        /\ calls[c].st = "in_step"
        /\ calls[c].node = "send_message"
        /\ calls[c].input = "yes"
        /\ calls[c].pre.next = "message_confirmation"
        /\ calls[c].values.current_profile_url # 0

\* C27: a messaging run that opened the browser in initialize_automation and
\* then reaches END has executed finalize_automation before ending: when the
\* thread whose step last set up the instance reaches END, finalize_automation
\* was its last step and the browser it opened is closed.
C27_EndIsReachedThroughFinalize ==
    \A c \in DOMAIN calls :
        ( /\ calls[c].wf = "messaging"
          /\ calls[c].st = "returned"
          /\ calls[c].node = END
          /\ calls[c].ran # <<>>
          /\ hist.owner["messaging"] = calls[c].thread
          /\ \/ /\ calls[c].op = "resume"
                /\ calls[c].prelast = Awaiting
                /\ calls[c].pre.next \in {"login_confirmation", "message_confirmation"}
             \/ \E i \in 1..Len(calls[c].ran) : calls[c].ran[i] = "initialize_automation" )
        => \/ calls[c].ran[Len(calls[c].ran)] = "finalize_automation"
           \/ ~inst["messaging"].browser

\* C28: a user during the fetch of whose posts the cancellation was observed
\* is not recorded as scraped: the step that handles the posts
\* scrape_user_posts returned after it saw the stop event set leaves the
\* scraped_users tracking as it was.
C28_CancelledUserIsNotTracked ==
    [][ ( scr.active /\ scr.phase = "save" /\ scr.seen )
        => db'.tracked = db.tracked ]_vars

\* C29: once the stop event is set during scrape_user_posts, the call sends
\* at most one further page request and extracts fewer than ten further
\* posts before it returns.
C29_StopsSoonAfterTheStopEvent ==
    /\ scr.after_requests <= 1
    /\ scr.after_posts < PollEvery

\* the stop event was set while a page was requested, and the call extracted
\* nine more posts before its poll saw it
C29_Witness ==
    /\ stop_event["scraping"] = "set"
    /\ scr.phase = "returned"
    /\ scr.cancelled
    /\ scr.after_posts = 9

\* C30: scrape_user_posts never returns more than max_limit posts, for every
\* sequence of page responses and every page size.
C30_AtMostMaxLimitPosts ==
    scr.posts_scraped <= scr.max_limit

\* a call returned exactly max_limit posts after a page that held more items
\* than were still wanted
C30_Witness ==
    /\ scr.phase = "returned"
    /\ scr.max_limit > PollEvery
    /\ scr.posts_scraped = scr.max_limit
    /\ scr.page >= 2

\* C23: when the suspended confirmation step human_satisfaction_review is
\* resumed with a confirming answer its validator accepts, the conditional
\* edge takes the confirmed branch: the step is the only one the resume
\* executes, the traversal reaches END and the RunResult has status completed.
C23_ConfirmingAnswerCompletes ==
    \A c \in DOMAIN calls :
        ( /\ calls[c].st = "returned"
          /\ calls[c].op = "resume"
          /\ calls[c].wf = "trend"
          /\ calls[c].pre.next = "human_satisfaction_review"
          /\ calls[c].prelast = Awaiting
          /\ Lower(calls[c].input) \in {"yes", "y", "satisfied", "ok", "okay", "good", "done"} )
        => /\ calls[c].ran = <<"human_satisfaction_review">>
           /\ calls[c].node = END
           /\ calls[c].result.status = "completed"
           /\ memory["trend"][calls[c].thread].next = None

\* C31: on the leads server a /generate message is delivered as a resume
\* exactly when the session's thread has a suspended step (a pending
\* interrupt in its checkpoint) and starts a new run only when it has none;
\* a message sent while the workflow awaits input never starts a run.
C31_ResumeExactlyWhenSuspended ==
    \A c \in DOMAIN calls :
        calls[c].op \in {"run", "resume"}
        => /\ (calls[c].op = "resume") <=> (calls[c].pre.intr # NoIntr)
           /\ calls[c].prelast = Awaiting => calls[c].op = "resume"

\* C32: a request the leads server rejects changes no server state: a
\* /generate for an unknown session id leaves the stop event of its workflow
\* type, the cancellation token of a run in flight, as it was, and a
\* /cancel_operation answered with 404 leaves the session records unchanged.
C32_RejectedRequestChangesNothing ==
    [][ /\ \A c \in DOMAIN calls :
              ( calls[c].st = "idle" /\ calls'[c].st = "returned" /\ calls'[c].op = "none" )
              => stop_event' = stop_event /\ stop_owner' = stop_owner
        /\ \A session_id \in Threads, operation_type \in OperationTypes :
              ( /\ CancelResponse(session_id, operation_type) = 404
                /\ leads_cancel_operation(session_id, operation_type) )
              => sessions' = sessions ]_vars

\* C33: at every point the session ids that have a conversation history are
\* the existing session ids, also when delete_session runs while a /generate
\* request of the session is awaiting its workflow.
C33_ConversationsAreTheSessions ==
    conversations = DOMAIN sessions

\* C34: during a messaging run, after every step
\* 0 <= successful <= processed <= min(loaded profiles, max_profiles) holds
\* (the profiles are loaded once initialize_automation has run), and
\* processed never decreases from one step of the run to the next.
C34_CountersStayInOrder ==
    [][ \A c \in DOMAIN calls :
          ( /\ calls'[c].wf = "messaging"
            /\ calls'[c].ran # calls[c].ran
            /\ \/ \E i \in 1..Len(calls'[c].ran) :
                     calls'[c].ran[i] = "initialize_automation"
               \/ /\ calls'[c].op = "resume"
                  /\ calls'[c].pre.next \in {"login_confirmation", "message_confirmation"} )
          => LET values == calls'[c].values IN
             /\ 0 <= values.successful
             /\ values.successful <= values.processed
             /\ values.processed <= inst'["messaging"].nprofiles
             /\ values.processed <= values.max_profiles
             /\ calls[c].values.processed <= values.processed ]_vars

\* C35: if the precondition check of an interaction step reports a failure
\* (process_category_selection with no categories), the step returns the
\* error state without suspending: no interrupt is left pending, the result
\* is not an awaiting one, and the run ends with status error.
C35_FailedPreconditionEndsInError ==
    [][ \A c \in DOMAIN calls :
          ( /\ calls[c].st = "running"
            /\ calls[c].wf = "trend"
            /\ calls[c].node = "process_category_selection"
            /\ calls[c].values.categories = <<>>
            /\ calls'[c].ran # calls[c].ran )
          => /\ calls'[c].st = "returned"
             /\ calls'[c].node = END
             /\ calls'[c].result.status = "error"
             /\ calls'[c].values.error_message = "No categories available for selection."
             /\ calls'[c].values.current_step = "category_selection"
             /\ memory'["trend"][calls[c].thread].next = None
             /\ memory'["trend"][calls[c].thread].intr = NoIntr ]_vars

\* the step has run on a state without categories and the run has ended
C35_Witness ==
    \E c \in DOMAIN calls :
        /\ calls[c].st = "returned"
        /\ calls[c].wf = "trend"
        /\ calls[c].ran = <<"process_category_selection">>
        /\ calls[c].values.categories = <<>>
        /\ calls[c].result.status = "error"

\* C36: the cancellation token of the scraping server is discarded when the
\* run terminates: while no /run_workflow request is in progress there is no
\* stop event, so that a cancel request is answered as having no active
\* operation (cancel_operation answers so exactly when there is no event).
C36_NoTokenWithoutARun ==
    ( \A c \in DOMAIN calls : calls[c].st = "idle" ) => stop_event["scraping"] = "none"

\* the comma-separated items of an answer: the parts between the commas
\* without their surrounding blanks; an answer without a comma is one item
ItemsOf(user_input) ==
    IF HasComma(user_input)
    THEN [i \in 1..Len(SplitComma(user_input)) |-> Strip(SplitComma(user_input)[i])]
    ELSE <<user_input>>

\* the item equals an available category, case-insensitively
MatchesACategory(item, available_categories) ==
    \E i \in 1..Len(available_categories) :
        LowerStr(available_categories[i]) = LowerStr(item)

\* C37: validate_category_selection accepts an answer exactly when it is
\* "all" or at least one of its comma-separated items equals an available
\* category case-insensitively; on acceptance selected_categories holds
\* available categories only: all of them for "all", otherwise one for each
\* item that matches, in the order of the items, the other items dropped.
C37_SelectionKeepsTheMatchingItems ==
    \A c \in DOMAIN calls :
        calls[c].st = "validated"
        => LET user_input == calls[c].user_input
               available == calls[c].context
               result == calls[c].result
               all == LowerStr(user_input) = <<"a", "l", "l">>
               matching == SelectSeq(ItemsOf(user_input),
                                     LAMBDA item : MatchesACategory(item, available))
           IN  /\ result.valid <=> (all \/ matching # <<>>)
               /\ result.valid =>
                     \A j \in 1..Len(result.selected_categories) :
                         \E i \in 1..Len(available) :
                             available[i] = result.selected_categories[j]
               /\ (result.valid /\ all) => result.selected_categories = available
               /\ (result.valid /\ ~all) =>
                     /\ Len(result.selected_categories) = Len(matching)
                     /\ \A j \in 1..Len(matching) :
                           LowerStr(result.selected_categories[j]) = LowerStr(matching[j])
               /\ ~result.valid => result.selected_categories = <<>>

\* an answer of two items of which the one that matches a category, in
\* another case, is kept and the other dropped
C37_Witness ==
    \E c \in DOMAIN calls :
        /\ calls[c].st = "validated"
        /\ calls[c].user_input = <<"l", ",", "b">>
        /\ calls[c].context = << <<"a">>, <<"B">> >>
        /\ calls[c].result.valid
        /\ calls[c].result.selected_categories = << <<"B">> >>

\* C38: a force reset leaves instagram_posts, scraped_users and
\* caption_embeddings existing and empty, and leaves the sent_messages table
\* as it was (missing if it was missing, with the same records otherwise),
\* after any sequence of resets, initialisations, inserts and restarts.
C38_ForceResetKeepsSentMessages ==
    (calls[1].op = "ensure_db_initialized" /\ calls[1].force_reset)
        => /\ \A t \in {"instagram_posts", "scraped_users", "caption_embeddings"} :
                 db.tables[t] = [exists |-> TRUE, rows |-> {}]
           /\ db.tables["sent_messages"] = calls[1].before.tables["sent_messages"]

\* a force reset of a file whose posts and sent messages both held records
C38_Witness ==
    /\ calls[1].op = "ensure_db_initialized"
    /\ calls[1].force_reset
    /\ calls[1].before.tables["instagram_posts"].rows # {}
    /\ calls[1].before.tables["scraped_users"].rows # {}
    /\ calls[1].before.tables["sent_messages"].rows # {}
    /\ db.tables["instagram_posts"] = [exists |-> TRUE, rows |-> {}]
    /\ db.tables["sent_messages"] = calls[1].before.tables["sent_messages"]

====
